---------------------------- MODULE Spec2Model ----------------------------
(***************************************************************************)
(* Model of the host monitoring core of sistema-redes2:                    *)
(*   - MonitoringService.check_host_comprehensive  (services/monitoring.py)*)
(*   - resolve_hostname / checar_um_host / worker_loop          (app.py)   *)
(*   - AlertService                                 (services/alerts.py)   *)
(* Each subsystem has its own next-state relation and specification over   *)
(* the one set of variables; a specification leaves the variables of the   *)
(* other subsystems unchanged.                                             *)
(***************************************************************************)
EXTENDS Integers, Sequences, FiniteSets, TLC

\* ------------------------------------------------------------------ bounds
\* Probe latencies range over 0..MaxLatency (milliseconds).
MaxLatency == 1
\* The clock of the monitoring service counts 0..MaxTime.
MaxTime == 1
\* The host_history table is followed up to MaxRows rows.
MaxRows == 2

\* ------------------------------------------------------- Python's optional
\* Python's None for a numeric value is the empty tuple, a value x is <<x>>.
None == <<>>
Some(x) == <<x>>
\* Python truthiness of an optional number: None and 0 are falsy.
Truthy(o) == o # None /\ o[1] # 0

VARIABLES
    \* --- services/monitoring.py
    host,       \* the row of the hosts table for the one monitored host
    now,        \* datetime.now(timezone.utc)
    results,    \* what the last check_host_comprehensive returned, NoResult once consumed
    calls,      \* the resolver and probers that call invoked, in order
    host_history \* the rows of the host_history table, oldest first

monVars == <<host, now, results, calls, host_history>>

\* =========================================================================
\* services/monitoring.py : MonitoringService.check_host_comprehensive
\* =========================================================================
HOSTNAME == "db1"
RESOLVED_IP == "10.0.0.5"
FALLBACK_IP == "192.0.2.9"
CheckTypeTokens == {"icmp", "tcp", "http", "https"}
\* host.tcp_ports, already split at the commas; the token -1 is the text "-1",
\* which str.isdigit() rejects.
TcpPortConfigs == {<<>>, <<3389>>, <<3389, 445>>, <<-1, 445>>}
Times == 0..MaxTime
Latencies == 0..MaxLatency

NoResult == [overall_status |-> "NoResult"]

\* What ping_icmp and ping_tcp return: (True, latency) or (False, None).
ProbeOutcomes ==
    {[success |-> FALSE, latency_ms |-> None]}
    \cup {[success |-> TRUE, latency_ms |-> Some(l)] : l \in Latencies}

\* What ping_http returns: as above, and (False, latency) for a status >= 400.
HttpOutcomes ==
    ProbeOutcomes \cup {[success |-> FALSE, latency_ms |-> Some(l)] : l \in Latencies}

\* check_types = [... for ct in (host.check_types or "icmp,tcp").split(',')]
ParseCheckTypes(check_types) ==
    IF check_types = {} THEN {"icmp", "tcp"} ELSE check_types

\* [int(p.strip()) for p in host.tcp_ports.split(',') if p.strip().isdigit()]
ParseTcpPorts(tcp_ports) == SelectSeq(tcp_ports, LAMBDA p : p >= 0)

\* if best_latency is None or (latency and latency < best_latency): best_latency = latency
UpdateBestLatency(best_latency, latency) ==
    IF best_latency = None \/ (Truthy(latency) /\ latency[1] < best_latency[1])
    THEN latency ELSE best_latency

\* A stored maintenance_until: the instant, and whether the loaded datetime
\* carries a timezone. The column is a plain DateTime on SQLite (host.py), which
\* loads values without tzinfo; only a value stored with an explicit offset by
\* another writer can come back aware.
StoredDatetime(t, aware) == [at |-> t, aware |-> aware]

\* datetime.now(timezone.utc) > host.maintenance_until raises TypeError when the
\* right-hand side is offset-naive.
CompareRaises(h) ==
    h.maintenance_until # None /\ ~h.maintenance_until[1].aware

\* The maintenance window is over: host.maintenance_until and now > host.maintenance_until
MaintenanceExpired(h, t) ==
    h.maintenance_until # None /\ t > h.maintenance_until[1].at

\* The one element of a singleton set. {F(x) : x \in {e}} evaluates e once,
\* however often F uses x.
TheOne(S) == CHOOSE x \in S : TRUE

\* The TCP loop of check_host_comprehensive over the parsed ports, from the
\* i-th on. acc = [any_success, best_latency, checks, calls, tcp_results].
RECURSIVE TcpLoop(_, _, _, _)
TcpLoop(ports, i, tcpOut, acc) ==
    IF i > Len(ports) THEN acc
    ELSE LET port == ports[i]
             out == tcpOut[port]
             step == [acc EXCEPT
                      !.any_success = @ \/ out.success,
                      !.best_latency = IF out.success
                                       THEN UpdateBestLatency(@, out.latency_ms)
                                       ELSE @,
                      !.tcp_results = Append(@, [port |-> port, success |-> out.success,
                                                  latency_ms |-> out.latency_ms]),
                      !.calls = Append(@, <<"tcp", port>>)]
         IN TheOne({TcpLoop(ports, i + 1, tcpOut, a) : a \in {step}})

\* ICMP Check
IcmpStep(a, check_types, env) ==
    IF "icmp" \in check_types
    THEN [a EXCEPT
          !.any_success = @ \/ env.icmp.success,
          !.best_latency = IF env.icmp.success
                           THEN UpdateBestLatency(@, env.icmp.latency_ms) ELSE @,
          !.checks = @ @@ ("icmp" :> env.icmp),
          !.calls = Append(@, <<"icmp">>)]
    ELSE a

\* TCP Port Checks: if 'tcp' in check_types and host.tcp_ports
TcpStep(a, h, check_types, env) ==
    IF "tcp" \in check_types /\ h.tcp_ports # <<>>
    THEN TheOne({[t EXCEPT !.checks = @ @@ ("tcp" :> t.tcp_results)] :
                    t \in {TcpLoop(ParseTcpPorts(h.tcp_ports), 1, env.tcp, a)}})
    ELSE a

\* HttpStep that is skipped once an earlier method has succeeded.
HttpStepShortCircuit(a, check_types, env) ==
    IF "http" \in check_types /\ ~a.any_success
    THEN [a EXCEPT
          !.any_success = @ \/ env.http.success,
          !.best_latency = IF env.http.success
                           THEN UpdateBestLatency(@, env.http.latency_ms) ELSE @,
          !.checks = @ @@ ("http" :> env.http),
          !.calls = Append(@, <<"http">>)]
    ELSE a

\* HTTP check
HttpStep(a, check_types, env) ==
    IF "http" \in check_types
    THEN [a EXCEPT
          !.any_success = @ \/ env.http.success,
          !.best_latency = IF env.http.success
                           THEN UpdateBestLatency(@, env.http.latency_ms) ELSE @,
          !.checks = @ @@ ("http" :> env.http),
          !.calls = Append(@, <<"http">>)]
    ELSE a

\* HTTPS check, then the certificate check, then the merge of the HTTPS result
HttpsStep(a, check_types, env) ==
    IF "https" \in check_types
    THEN [a EXCEPT
          !.any_success = @ \/ env.https.success,
          !.best_latency = IF env.https.success
                           THEN UpdateBestLatency(@, env.https.latency_ms) ELSE @,
          !.checks = @ @@ ("https" :> env.https) @@ ("ssl" :> [success |-> env.ssl]),
          !.calls = @ \o << <<"https">>, <<"ssl">> >>]
    ELSE a

\* The probing part of check_host_comprehensive, once a target IP is known.
\* env holds what each prober answers: env.icmp, env.tcp[port], env.http,
\* env.https, env.ssl. Returns [any_success, best_latency, checks, calls, tcp_results].
RunProbes(h, dnsCheck, env) ==
    LET check_types == ParseCheckTypes(h.check_types)
        a0 == [any_success |-> FALSE, best_latency |-> None,
               checks |-> ("dns" :> dnsCheck), calls |-> << <<"dns">> >>,
               tcp_results |-> <<>>]
    IN  TheOne({HttpsStep(a3, check_types, env) :
            a3 \in {HttpStep(a2, check_types, env) :
                a2 \in {TcpStep(a1, h, check_types, env) :
                    a1 \in {IcmpStep(a0, check_types, env)}}}})

\* MergeStatus with the two branches exchanged.
MergeStatusInverted(any_success) == IF any_success THEN "Offline" ELSE "Online"

\* Determine overall status (monitoring.py, the last block of the function).
MergeStatus(any_success) == IF any_success THEN "Online" ELSE "Offline"

\* check_host_comprehensive(host) at time t, the resolver answering env.dns
\* ("None" for a failed resolution) and the probers as in env. Returns the
\* results dictionary, the calls made and the row of the host store afterwards.
check_host_comprehensive(h, t, env) ==
    LET base == [hostname |-> h.hostname, timestamp |-> t,
                 overall_status |-> "Unknown", checks |-> <<>>,
                 primary_ip |-> "None", response_time |-> None,
                 error_message |-> "None"]
        expired == h.in_maintenance /\ MaintenanceExpired(h, t)
        \* End maintenance window: the row is cleared in the database
        hAfter == IF expired
                  THEN [h EXCEPT !.in_maintenance = FALSE, !.maintenance_until = None]
                  ELSE h
        \* DNS resolution
        dnsCheck == IF env.dns # "None"
                    THEN [success |-> TRUE, fallback_used |-> FALSE]
                    ELSE [success |-> FALSE, fallback_used |-> h.fallback_ip # "None"]
        primary_ip == IF env.dns # "None" THEN env.dns ELSE h.fallback_ip
        Probed(p) ==
            [results |-> [base EXCEPT
                !.overall_status = MergeStatus(p.any_success),
                !.checks = p.checks,
                !.primary_ip = primary_ip,
                !.response_time = IF p.any_success THEN p.best_latency ELSE None,
                !.error_message = IF p.any_success THEN "None"
                                  ELSE IF ~dnsCheck.success THEN "DNS resolution failed"
                                  ELSE "All checks failed"],
             calls |-> p.calls, host |-> hAfter]
    IN  IF h.in_maintenance /\ CompareRaises(h)
        THEN \* TypeError leaves the function: nothing is returned or written
             [results |-> [base EXCEPT !.overall_status = "TypeError"],
              calls |-> <<>>, host |-> h]
        ELSE IF h.in_maintenance /\ ~expired
        THEN [results |-> [base EXCEPT !.overall_status = "Maintenance"],
              calls |-> <<>>, host |-> h]
        ELSE IF primary_ip = "None"
        THEN [results |-> [base EXCEPT !.overall_status = "Offline",
                                       !.checks = ("dns" :> dnsCheck),
                                       !.error_message = "No IP address available"],
              calls |-> << <<"dns">> >>, host |-> hAfter]
        ELSE TheOne({Probed(p) : p \in {RunProbes(h, dnsCheck, env)}})

\* The answers of the resolver and of the probers a check of h can meet; a
\* prober that the check does not invoke has the one answer "not asked".
NotAsked == [success |-> FALSE, latency_ms |-> None]
ProbeEnvs(h) ==
    LET check_types == ParseCheckTypes(h.check_types)
        ports == IF "tcp" \in check_types
                 THEN {ParseTcpPorts(h.tcp_ports)[i] : i \in 1..Len(ParseTcpPorts(h.tcp_ports))}
                 ELSE {}
    IN  [dns : {"None", RESOLVED_IP},
         icmp : IF "icmp" \in check_types THEN ProbeOutcomes ELSE {NotAsked},
         tcp : [ports -> ProbeOutcomes],
         http : IF "http" \in check_types THEN HttpOutcomes ELSE {NotAsked},
         https : IF "https" \in check_types THEN HttpOutcomes ELSE {NotAsked},
         ssl : IF "https" \in check_types THEN BOOLEAN ELSE {FALSE}]

MonInit ==
    /\ host \in [hostname : {HOSTNAME},
                 fallback_ip : {"None", FALLBACK_IP},
                 check_types : SUBSET CheckTypeTokens,
                 tcp_ports : TcpPortConfigs,
                 in_maintenance : {FALSE},
                 maintenance_until : {None},
                 ip_address : {"None"}]
    /\ now = 0
    /\ results = NoResult
    /\ calls = <<>>
    /\ host_history = <<>>

\* One call of check_host_comprehensive on the loaded host row; the result
\* stays with the caller until Return.
Check ==
    /\ results = NoResult
    /\ \E env \in ProbeEnvs(host) :
         \E r \in {check_host_comprehensive(host, now, env)} :
             /\ results' = r.results
             /\ calls' = r.calls
             /\ host' = r.host
    /\ UNCHANGED <<now, host_history>>

\* The caller has used the result; the service is ready for the next call.
Return ==
    /\ results # NoResult
    /\ results' = NoResult
    /\ calls' = <<>>
    /\ UNCHANGED <<host, now, host_history>>

\* An operator puts the host in maintenance, with or without an end time.
SetMaintenance ==
    /\ results = NoResult
    /\ \E until \in {None} \cup {Some(StoredDatetime(t, a)) : t \in Times, a \in BOOLEAN} :
         host' = [host EXCEPT !.in_maintenance = TRUE, !.maintenance_until = until]
    /\ UNCHANGED <<now, results, calls, host_history>>

\* Time passes.
Tick ==
    /\ results = NoResult
    /\ now < MaxTime
    /\ now' = now + 1
    /\ UNCHANGED <<host, results, calls, host_history>>

MonNext == Check \/ Return \/ SetMaintenance \/ Tick

\* save_check_result(result) on the host row h and the history rows; ok is
\* false when the session raises, which is logged and leaves nothing written.
save_check_result(result, h, rows, ok) ==
    IF ~ok THEN [host |-> h, host_history |-> rows]
    ELSE [host |-> IF result.primary_ip # "None" /\ result.primary_ip # h.ip_address
                   THEN [h EXCEPT !.ip_address = result.primary_ip]
                   ELSE h,
          host_history |-> Append(rows,
              [hostname |-> result.hostname,
               status |-> result.overall_status,
               ip |-> result.primary_ip,
               latency_ms |-> result.response_time,
               timestamp |-> result.timestamp,
               reason |-> result.error_message])]

\* force_host_check: load the host row, run check_host_comprehensive on it,
\* save the result and answer the request. A TypeError of the check leaves
\* the handler before anything is saved.
ForceCheck ==
    /\ results = NoResult
    /\ Len(host_history) < MaxRows
    /\ \E env \in ProbeEnvs(host), ok \in BOOLEAN :
         \E r \in {check_host_comprehensive(host, now, env)} :
             IF r.results.overall_status = "TypeError"
             THEN UNCHANGED <<host, host_history>>
             ELSE \E s \in {save_check_result(r.results, r.host, host_history, ok)} :
                     /\ host' = s.host
                     /\ host_history' = s.host_history
    /\ UNCHANGED <<now, results, calls>>

ForceNext == ForceCheck \/ SetMaintenance \/ Tick


\* =========================================================================
\* app.py : resolve_hostname, checar_um_host, carregar_maquinas
\* =========================================================================
\* Seconds a dns_cache entry stays valid (the literal in resolve_hostname).
DNS_CACHE_TTL == 300
\* Seconds machines_cache stays valid.
CACHE_TIMEOUT == 300
\* The wall clock advances ClockStep seconds at a time, MaxTicks times.
ClockStep == 150
MaxTicks == 2
\* The history table holds at most MaxHistory rows.
MaxHistory == 2
PORTAS_TCP_TESTE == <<3389, 445, 80>>

\* The rows the machines file can hold: name and the optional IP hint.
DB1 == [name |-> "db1", ip |-> FALLBACK_IP]
WEB1 == [name |-> "web1", ip |-> "None"]
Hostnames == {"db1", "web1"}
CsvFiles == {<<DB1>>, <<WEB1>>}
\* What socket.gethostbyname can answer: an address, or "None" for an error.
DnsAnswers == {"None", RESOLVED_IP, "10.0.0.9"}

VARIABLES
    clock,              \* time.time(), also agora_brasilia()
    dns_cache,          \* hostname -> {ip, resolved_at, ok, error}
    resolveRet,         \* what the last resolve_hostname returned
    lookupTimes,        \* per hostname, when a direct call invoked socket.gethostbyname
    lastCallAt,         \* per hostname, the time of the last direct resolve_hostname call
    started,            \* inicializar_cache has run
    csvFile,            \* the rows of machines.csv
    machines_cache,     \* the rows last loaded
    last_machines_load, \* when they were loaded
    status_cache,       \* hostname -> StatusEntry
    history,            \* the rows of the history table in the order of their
                        \* timestamps, which stand for the column of that name
    checkRet            \* the last checar_um_host: its host, and what became of its writes

dnsVars == <<dns_cache, resolveRet, lookupTimes, lastCallAt>>
storeVars == <<started, csvFile, machines_cache, last_machines_load, status_cache,
               history, checkRet>>
appVars == <<clock, dnsVars, storeVars>>

\* d[k] = v on a Python dictionary.
Put(d, k, v) == [x \in (DOMAIN d) \cup {k} |-> IF x = k THEN v ELSE d[x]]

\* DnsFresh with the entry still taken as valid at the very end of the TTL.
DnsFreshInclusive(cache, hostname, t) ==
    /\ hostname \in DOMAIN cache
    /\ (t - cache[hostname].resolved_at) <= DNS_CACHE_TTL

\* The dns_cache entry of hostname is younger than the TTL at time t.
DnsFresh(cache, hostname, t) ==
    /\ hostname \in DOMAIN cache
    /\ (t - cache[hostname].resolved_at) < DNS_CACHE_TTL

\* resolve_hostname that serves only successes from the cache and looks a
\* failed name up again on every call.
resolve_hostname_retry_failures(cache, hostname, t, answer) ==
    IF DnsFresh(cache, hostname, t) /\ cache[hostname].ok
    THEN [ip |-> cache[hostname].ip, error |-> "None",
          dns_cache |-> cache, looked_up |-> FALSE]
    ELSE LET entry == IF answer # "None"
                      THEN [ip |-> answer, resolved_at |-> t, ok |-> TRUE,
                            error |-> "None"]
                      ELSE [ip |-> "None", resolved_at |-> t, ok |-> FALSE,
                            error |-> "DNS resolution failed"]
         IN  [ip |-> entry.ip, error |-> entry.error,
              dns_cache |-> Put(cache, hostname, entry), looked_up |-> TRUE]

\* resolve_hostname(hostname) at time t, socket.gethostbyname answering
\* `answer` if it is asked. Returns the pair (ip, error), the cache afterwards
\* and whether the underlying lookup was invoked.
resolve_hostname(cache, hostname, t, answer) ==
    IF DnsFresh(cache, hostname, t)
    THEN [ip |-> IF cache[hostname].ok THEN cache[hostname].ip ELSE "None",
          error |-> IF cache[hostname].ok THEN "None" ELSE cache[hostname].error,
          dns_cache |-> cache, looked_up |-> FALSE]
    ELSE LET entry == IF answer # "None"
                      THEN [ip |-> answer, resolved_at |-> t, ok |-> TRUE,
                            error |-> "None"]
                      ELSE [ip |-> "None", resolved_at |-> t, ok |-> FALSE,
                            error |-> "DNS resolution failed"]
         IN  [ip |-> entry.ip, error |-> entry.error,
              dns_cache |-> Put(cache, hostname, entry), looked_up |-> TRUE]

\* The answers the lookup can give to a call that reaches it.
AnswersFor(cache, hostname, t) ==
    IF DnsFresh(cache, hostname, t) THEN {"None"} ELSE DnsAnswers

\* The bookkeeping of a caller that counts the lookups behind its own calls
\* of resolve_hostname: when the lookup ran, and when the last call was made.
NoteResolve(hostname, r) ==
    /\ lookupTimes' = [lookupTimes EXCEPT ![hostname] =
                          IF r.looked_up THEN Append(@, clock) ELSE @]
    /\ lastCallAt' = [lastCallAt EXCEPT ![hostname] = Some(clock)]

\* carregar_maquinas() at time t, the machines file existing with rows `file`.
carregar_maquinas(cached, last_load, file, t) ==
    IF cached # <<>> /\ (t - last_load) < CACHE_TIMEOUT
    THEN [maquinas |-> cached, machines_cache |-> cached, last_machines_load |-> last_load]
    ELSE [maquinas |-> file, machines_cache |-> file, last_machines_load |-> t]

\* TcpFallback without the break: every port is tried.
RECURSIVE TcpFallbackNoBreak(_, _, _)
TcpFallbackNoBreak(i, tcp_target, tcp) ==
    IF i > Len(PORTAS_TCP_TESTE) THEN [online |-> FALSE, probes |-> <<>>]
    ELSE LET rest == TcpFallbackNoBreak(i + 1, tcp_target, tcp)
         IN  [online |-> tcp[PORTAS_TCP_TESTE[i]] \/ rest.online,
              probes |-> << <<"tcp", tcp_target, PORTAS_TCP_TESTE[i],
                              tcp[PORTAS_TCP_TESTE[i]]>> >> \o rest.probes]

\* ICMP first, then the TCP ports in order up to the first that connects.
\* env.icmp is what ping_icmp_target returns, env.tcp[port] what tcp_ping
\* does; probes is the log of the probers called: the prober, its target, its
\* port (0 for a ping) and whether it succeeded.
RECURSIVE TcpFallback(_, _, _)
TcpFallback(i, tcp_target, tcp) ==
    IF i > Len(PORTAS_TCP_TESTE) THEN [online |-> FALSE, probes |-> <<>>]
    ELSE IF tcp[PORTAS_TCP_TESTE[i]]
    THEN [online |-> TRUE,
          probes |-> << <<"tcp", tcp_target, PORTAS_TCP_TESTE[i], TRUE>> >>]
    ELSE LET rest == TcpFallback(i + 1, tcp_target, tcp)
         IN  [online |-> rest.online,
              probes |-> << <<"tcp", tcp_target, PORTAS_TCP_TESTE[i], FALSE>> >>
                         \o rest.probes]

ProbeTarget(icmp_target, tcp_target, env) ==
    IF env.icmp.success
    THEN [online |-> TRUE, latency |-> env.icmp.latency_ms,
          probes |-> << <<"icmp", icmp_target, 0, TRUE>> >>]
    ELSE LET t == TcpFallback(1, tcp_target, env.tcp)
         IN  [online |-> t.online, latency |-> None,
              probes |-> << <<"icmp", icmp_target, 0, FALSE>> >> \o t.probes]

\* status_cache.get(hostname, {}) with the fields read by checar_um_host.
NoEntry == [status |-> "None", ip |-> "None"]
GetEntry(scache, hostname) ==
    IF hostname \in DOMAIN scache THEN scache[hostname] ELSE NoEntry

\* StatusChanged without the comparison: a row on every check of a known host.
StatusChangedAlways(old_status, new_status) ==
    old_status # "None"

\* if old_status and old_status != new_status
StatusChanged(old_status, new_status) ==
    old_status # "None" /\ old_status # new_status

\* IpChanged without the guards on a missing address.
IpChangedUnguarded(old_ip, final_ip) ==
    old_ip # final_ip

\* if existing and existing.get("ip") and final_ip: if old_ip != final_ip
IpChanged(old_ip, final_ip) ==
    old_ip # "None" /\ final_ip # "None" /\ old_ip # final_ip

\* ProbeHost with nothing probed once the resolution has failed.
ProbeHostNoFallback(m, r, env) ==
    IF r.ip # "None" THEN ProbeTarget(m.name, r.ip, env)
    ELSE [online |-> FALSE, latency |-> None, probes |-> <<>>]

\* ProbeHost with the fallback address probed even when there is none.
ProbeHostAlways(m, r, env) ==
    IF r.ip # "None" THEN ProbeTarget(m.name, r.ip, env)
    ELSE ProbeTarget(m.ip, m.ip, env)

\* checar_um_host(m) from the probing on: r is what resolve_hostname
\* returned. The name is pinged and the resolved address connected to; after
\* a failed resolution the fallback address gets both, and without one
\* nothing is probed.
ProbeHost(m, r, env) ==
    IF r.ip # "None" THEN ProbeTarget(m.name, r.ip, env)
    ELSE IF m.ip # "None" THEN ProbeTarget(m.ip, m.ip, env)
    ELSE [online |-> FALSE, latency |-> None, probes |-> <<>>]

\* WriteRaises with the exception of a failed write leaving checar_um_host's
\* inner try blocks.
WriteRaisesUncaught(ok) == ~ok

\* try: ... db.commit() / except Exception as e: logger.error(...): whether a
\* history write, failed or not, raises into the rest of checar_um_host.
WriteRaises(ok) == FALSE

\* checar_um_host(m) from `now = agora_brasilia()` on: p is what the probing
\* found, existing the entry status_cache.get(hostname, {}).
MergeResult(m, t, env, scache, r, p, existing) ==
    LET hostname == m.name
        ip_fallback == m.ip
        resolved_ip == r.ip
        target_ip == IF resolved_ip # "None" THEN resolved_ip ELSE ip_fallback
        method == IF resolved_ip # "None" THEN "HOSTNAME"
                  ELSE IF ip_fallback # "None" THEN "IP_FALLBACK" ELSE "None"
        reason == IF resolved_ip # "None" THEN "None"
                  ELSE IF ip_fallback # "None" THEN "DNS_FAIL_FALLBACK"
                  ELSE "DNS_FAIL_NO_BACKUP"
        old_status == existing.status
        new_status == IF p.online THEN "Online" ELSE "Offline"
        final_ip == IF resolved_ip # "None" THEN resolved_ip ELSE target_ip
        ip_changed == IpChanged(existing.ip, final_ip)
        data == [name |-> hostname, ip |-> final_ip, status |-> new_status,
                 last_checked |-> Some(t), latency_ms |-> p.latency,
                 reason |-> reason, method |-> method, ip_changed |-> ip_changed]
        ipRow == [name |-> hostname, ip |-> final_ip, status |-> "IP_CHANGED",
                  detail |-> <<existing.ip, final_ip, method>>,
                  latency_ms |-> None]
        statusRow == [name |-> hostname,
                      ip |-> IF final_ip # "None" THEN final_ip ELSE "unknown",
                      status |-> new_status, detail |-> <<>>,
                      latency_ms |-> p.latency]
        ipRaised == ip_changed /\ WriteRaises(env.ipWrite)
        statusRaised == /\ ~ipRaised
                        /\ StatusChanged(old_status, new_status)
                        /\ WriteRaises(env.statusWrite)
    IN  [data |-> data,
         resolved |-> r,
         probes |-> p.probes,
         dns_cache |-> r.dns_cache,
         status_cache |-> IF ipRaised THEN scache ELSE Put(scache, hostname, data),
         returned |-> IF ipRaised \/ statusRaised THEN None ELSE Some(data),
         counted |-> IF ipRaised \/ statusRaised THEN "failed_checks"
                     ELSE "successful_checks",
         ipWriteTried |-> ip_changed,
         statusWriteTried |-> ~ipRaised /\ StatusChanged(old_status, new_status),
         rows |-> (IF ip_changed /\ env.ipWrite THEN <<ipRow>> ELSE <<>>)
                  \o (IF StatusChanged(old_status, new_status) /\ env.statusWrite
                      THEN <<statusRow>> ELSE <<>>)]

\* checar_um_host(m) at time t. env: dns (the lookup's answer), icmp, tcp (the
\* probers), ipWrite and statusWrite (whether the commit of the IP-change row
\* and of the status row succeeds). Returns the StatusEntry written, the two
\* caches afterwards and the history rows appended, in order.
checar_um_host(m, t, env, cache, scache) ==
    LET existing == GetEntry(scache, m.name)
        Probed(r) == TheOne({MergeResult(m, t, env, scache, r, p, e) :
                                p \in {ProbeHost(m, r, env)}, e \in {existing}})
    IN  TheOne({Probed(r) : r \in {resolve_hostname(cache, m.name, t, env.dns)}})

\* What a check of m can meet, the commits left aside: a prober that the
\* check does not reach has one outcome only.
AllClosed == [port \in {PORTAS_TCP_TESTE[i] : i \in 1..Len(PORTAS_TCP_TESTE)} |-> FALSE]
\* What the three ports can answer, up to the first that connects.
TcpAnswers ==
    {AllClosed} \cup {[AllClosed EXCEPT ![port] = TRUE] : port \in DOMAIN AllClosed}
CheckEnvs(m, cache, t) ==
    LET up == [dns : AnswersFor(cache, m.name, t),
               icmp : {[success |-> TRUE, latency_ms |-> Some(MaxLatency)]},
               tcp : {AllClosed},
               ipWrite : {TRUE}, statusWrite : {TRUE}]
        down == [dns : AnswersFor(cache, m.name, t),
                 icmp : {NotAsked},
                 tcp : TcpAnswers,
                 ipWrite : {TRUE}, statusWrite : {TRUE}]
    IN  up \cup down

\* What became of a write: not attempted, committed, or failed and logged.
WriteOutcome(tried, ok) == IF ~tried THEN "none" ELSE IF ok THEN "ok" ELSE "failed"

AppInit ==
    /\ clock = 0
    /\ dns_cache = <<>>
    /\ resolveRet = [ip |-> "None", error |-> "None"]
    /\ lookupTimes = [h \in Hostnames |-> <<>>]
    /\ lastCallAt = [h \in Hostnames |-> None]
    /\ started = FALSE
    /\ csvFile \in CsvFiles
    /\ machines_cache = <<>>
    /\ last_machines_load = 0
    /\ status_cache = <<>>
    /\ history = <<>>
    /\ checkRet = [name |-> "None", ipWrite |-> "none", statusWrite |-> "none",
                   returned |-> None, counted |-> "None", probes |-> <<>>]

\* Time passes.
AdvanceClock ==
    /\ clock + ClockStep <= MaxTicks * ClockStep
    /\ clock' = clock + ClockStep
    /\ UNCHANGED <<dnsVars, storeVars>>

\* One call of resolve_hostname(hostname).
Resolve(hostname) ==
    \E answer \in AnswersFor(dns_cache, hostname, clock) :
        LET r == resolve_hostname(dns_cache, hostname, clock, answer)
        IN  /\ dns_cache' = r.dns_cache
            /\ resolveRet' = [ip |-> r.ip, error |-> r.error]
            /\ NoteResolve(hostname, r)
            /\ UNCHANGED <<clock, storeVars>>

\* InitEntries adding no entry.
InitEntriesNone(maquinas, i, scache) == scache

\* inicializar_cache(): an Unknown entry for every machine of the inventory.
RECURSIVE InitEntries(_, _, _)
InitEntries(maquinas, i, scache) ==
    IF i > Len(maquinas) THEN scache
    ELSE InitEntries(maquinas, i + 1,
            Put(scache, maquinas[i].name,
                [name |-> maquinas[i].name, ip |-> "None", status |-> "Desconhecido",
                 last_checked |-> None, latency_ms |-> None, reason |-> "None",
                 method |-> "None", ip_changed |-> FALSE]))

inicializar_cache ==
    /\ ~started
    /\ LET l == carregar_maquinas(machines_cache, last_machines_load, csvFile, clock)
       IN  /\ machines_cache' = l.machines_cache
           /\ last_machines_load' = l.last_machines_load
           /\ status_cache' = InitEntries(l.maquinas, 1, status_cache)
    /\ started' = TRUE
    /\ UNCHANGED <<clock, dnsVars, csvFile, history, checkRet>>

\* The start of a scan pass: maquinas = carregar_maquinas().
LoadMachines ==
    /\ started
    /\ LET l == carregar_maquinas(machines_cache, last_machines_load, csvFile, clock)
       IN  /\ machines_cache' = l.machines_cache
           /\ last_machines_load' = l.last_machines_load
    /\ UNCHANGED <<clock, dnsVars, started, csvFile, status_cache, history, checkRet>>

\* One call of checar_um_host(m), run to its end.
CheckHost(m) ==
    /\ started
    /\ \E env0 \in CheckEnvs(m, dns_cache, clock) :
       \E c0 \in {checar_um_host(m, clock, env0, dns_cache, status_cache)} :
       \E iw \in (IF c0.ipWriteTried THEN BOOLEAN ELSE {TRUE}),
          sw \in (IF c0.statusWriteTried THEN BOOLEAN ELSE {TRUE}) :
       \E c \in {checar_um_host(m, clock, [env0 EXCEPT !.ipWrite = iw, !.statusWrite = sw],
                                dns_cache, status_cache)} :
           /\ dns_cache' = c.dns_cache
           /\ resolveRet' = [ip |-> c.resolved.ip, error |-> c.resolved.error]
           /\ UNCHANGED <<lookupTimes, lastCallAt>>
           /\ status_cache' = c.status_cache
           /\ Len(history \o c.rows) <= MaxHistory
           /\ history' = history \o c.rows
           /\ checkRet' = [name |-> m.name,
                           ipWrite |-> WriteOutcome(c.ipWriteTried, iw),
                           statusWrite |-> WriteOutcome(c.statusWriteTried, sw),
                           returned |-> c.returned,
                           counted |-> c.counted,
                           probes |-> c.probes]
    /\ UNCHANGED <<clock, started, csvFile, machines_cache, last_machines_load>>

\* The machines a pass submits.
Submitted == {machines_cache[i] : i \in 1..Len(machines_cache)}

\* The operator replaces machines.csv while the program runs: the host it
\* listed is deconfigured and another one configured.
EditCsv ==
    /\ started
    /\ csvFile' \in CsvFiles \ {csvFile}
    /\ UNCHANGED <<clock, dnsVars, started, machines_cache, last_machines_load,
                   status_cache, history, checkRet>>

\* GET /status: the snapshot is made of every entry of status_cache.
StatusSnapshot(scache) == {scache[h] : h \in DOMAIN scache}

\* =========================================================================
\* src/services/alerts.py: AlertService over the alert tables
\* =========================================================================
\* Bounds of the alert tables.
MaxAlerts == 2
MaxNotificationCount == 2
MaxStreak == 2

VARIABLES
    alert_rules,            \* the rows of alert_rules, a rule's id is its index
    alert_instances,        \* the committed rows of alert_instances, by id
    notification_channels,  \* the rows of notification_channels, by id
    outbox,                 \* the notifications handed to a channel's handler, in order
    ackRet,                 \* what the last acknowledge_alert returned
    streak                  \* how many evaluate_alert_rules("db1", Offline) calls made up
                            \* the whole run so far, -1 once another call was made

alertVars == <<alert_rules, alert_instances, notification_channels, outbox, ackRet, streak>>

\* The rows of the hosts table that _matches_target reads.
HostRows ==
    [db1 |-> [tags |-> Some({"prod"}), group_name |-> "core"],
     web1 |-> [tags |-> None, group_name |-> "None"]]
AlertHostnames == {"db1", "web1", "ghost"}
AlertStatuses == {"Online", "Offline"}
AlertLatencies == {None, Some(0), Some(2)}

\* float(rule.condition_value), None for the ValueError.
ParseFloat(s) ==
    IF s = "0" THEN Some(0) ELSE IF s = "1" THEN Some(1) ELSE IF s = "2" THEN Some(2) ELSE None

R_OFFLINE ==
    [enabled |-> TRUE, condition_type |-> "status", condition_operator |-> "equals",
     condition_value |-> "Offline", target_hosts |-> None, target_tags |-> None,
     target_groups |-> None, notification_channels |-> <<1>>]
R_SLOW ==
    [enabled |-> TRUE, condition_type |-> "latency", condition_operator |-> "greater_than",
     condition_value |-> "1", target_hosts |-> Some({"db1"}), target_tags |-> None,
     target_groups |-> None, notification_channels |-> <<1, 2>>]
R_NOT_ONLINE ==
    [enabled |-> TRUE, condition_type |-> "status", condition_operator |-> "not_equals",
     condition_value |-> "Online", target_hosts |-> None, target_tags |-> Some({"prod"}),
     target_groups |-> Some({"edge"}), notification_channels |-> <<2, 3>>]
R_DISABLED == [R_OFFLINE EXCEPT !.enabled = FALSE]
AlertRuleSets ==
    {<<R_OFFLINE>>, <<R_SLOW, R_NOT_ONLINE>>, <<R_DISABLED, R_OFFLINE>>}

\* matches_target without the lookup of the host's row: a hostname that has
\* none is matched as a host without tags and group.
matches_target_without_row(rule, hostname) ==
    LET known == hostname \in DOMAIN HostRows
    IN  \/ /\ rule.target_hosts # None
           /\ ("*" \in rule.target_hosts[1] \/ hostname \in rule.target_hosts[1])
        \/ /\ known
           /\ rule.target_tags # None /\ HostRows[hostname].tags # None
           /\ rule.target_tags[1] \cap HostRows[hostname].tags[1] # {}
        \/ /\ known
           /\ rule.target_groups # None /\ HostRows[hostname].group_name # "None"
           /\ HostRows[hostname].group_name \in rule.target_groups[1]
        \/ /\ rule.target_hosts = None
           /\ rule.target_tags = None
           /\ rule.target_groups = None

\* _matches_target(rule, hostname), the rule's targets being JSON arrays.
matches_target(rule, hostname) ==
    IF hostname \notin DOMAIN HostRows THEN FALSE
    ELSE LET h == HostRows[hostname]
         IN  \/ /\ rule.target_hosts # None
                /\ ("*" \in rule.target_hosts[1] \/ hostname \in rule.target_hosts[1])
             \/ /\ rule.target_tags # None /\ h.tags # None
                /\ rule.target_tags[1] \cap h.tags[1] # {}
             \/ /\ rule.target_groups # None /\ h.group_name # "None"
                /\ h.group_name \in rule.target_groups[1]
             \/ /\ rule.target_hosts = None
                /\ rule.target_tags = None
                /\ rule.target_groups = None

\* _should_trigger_alert(rule, hostname, status, latency_ms)
should_trigger_alert(rule, hostname, status, latency_ms) ==
    IF ~matches_target(rule, hostname) THEN FALSE
    ELSE IF rule.condition_type = "status"
    THEN IF rule.condition_operator = "equals" THEN status = rule.condition_value
         ELSE IF rule.condition_operator = "not_equals" THEN status # rule.condition_value
         ELSE FALSE
    ELSE IF rule.condition_type = "latency" /\ latency_ms # None
    THEN LET threshold == ParseFloat(rule.condition_value)
         IN  IF threshold = None THEN FALSE
             ELSE IF rule.condition_operator = "greater_than" THEN latency_ms[1] > threshold[1]
             ELSE IF rule.condition_operator = "less_than" THEN latency_ms[1] < threshold[1]
             ELSE FALSE
    ELSE FALSE

\* str(latency_ms) if latency_ms else status.value
TriggerValue(status, latency_ms) ==
    IF Truthy(latency_ms) THEN ToString(latency_ms[1]) ELSE status

\* The session's view of row k: its pending change if it has one.
Loaded(s, k) == IF k \in DOMAIN s.dirty THEN s.dirty[k] ELSE s.alert_instances[k]

\* db.commit(): the pending changes of the session reach the table.
Commit(s) ==
    [s EXCEPT !.alert_instances = [k \in DOMAIN s.alert_instances |-> Loaded(s, k)],
              !.dirty = <<>>]

\* ActiveIds without the filter: the query finds no row.
ActiveIdsNone(instances, rule_id, hostname) ==
    {k \in DOMAIN instances : FALSE}

\* ActiveIds with the filter status in (ACTIVE, ACKNOWLEDGED).
ActiveIdsUnresolved(instances, rule_id, hostname) ==
    {k \in DOMAIN instances :
        /\ instances[k].rule_id = rule_id
        /\ instances[k].hostname = hostname
        /\ instances[k].status \in {"active", "acknowledged"}}

\* ActiveIds without the filter on the status.
ActiveIdsAnyStatus(instances, rule_id, hostname) ==
    {k \in DOMAIN instances :
        /\ instances[k].rule_id = rule_id
        /\ instances[k].hostname = hostname}

\* The committed rows of (rule_id, hostname) with status ACTIVE, as the two
\* queries filter them.
ActiveIds(instances, rule_id, hostname) ==
    {k \in DOMAIN instances :
        /\ instances[k].rule_id = rule_id
        /\ instances[k].hostname = hostname
        /\ instances[k].status = "active"}

MinOf(S) == CHOOSE k \in S : \A j \in S : k <= j

\* _send_notification(channel, alert, is_resolution): the handler runs, and
\* the channel's counters are committed in a session of their own.
send_notification(s, channel_id, alert_id, is_resolution) ==
    LET ch == s.notification_channels[channel_id]
    IN  [s EXCEPT
            !.outbox = Append(@, [alert_id |-> alert_id, channel_id |-> channel_id,
                                  is_resolution |-> is_resolution]),
            !.notification_channels[channel_id] =
                IF ch.delivers
                THEN [ch EXCEPT !.success_count = @ + 1]
                ELSE [ch EXCEPT !.error_count = @ + 1]]

\* send_alert_notifications sending to the disabled channels as well.
RECURSIVE send_alert_every_channel(_, _, _, _)
send_alert_every_channel(s, channel_ids, i, alert_id) ==
    IF i > Len(channel_ids) THEN s
    ELSE LET c == channel_ids[i]
             sent == IF c \in DOMAIN s.notification_channels
                     THEN send_notification(s, c, alert_id, FALSE)
                     ELSE s
         IN  send_alert_every_channel(sent, channel_ids, i + 1, alert_id)

\* _send_alert_notifications(rule, alert): the rule's channels that exist and
\* are enabled, in the order of the rule's list.
RECURSIVE send_alert_notifications(_, _, _, _)
send_alert_notifications(s, channel_ids, i, alert_id) ==
    IF i > Len(channel_ids) THEN s
    ELSE LET c == channel_ids[i]
             sent == IF c \in DOMAIN s.notification_channels
                        /\ s.notification_channels[c].enabled
                     THEN send_notification(s, c, alert_id, FALSE)
                     ELSE s
         IN  send_alert_notifications(sent, channel_ids, i + 1, alert_id)

\* send_resolution_notification sparing the disabled channels.
RECURSIVE send_resolution_enabled_only(_, _, _, _)
send_resolution_enabled_only(s, channel_ids, i, alert_id) ==
    IF i > Len(channel_ids) THEN s
    ELSE LET c == channel_ids[i]
             sent == IF c \in DOMAIN s.notification_channels
                        /\ s.notification_channels[c].enabled
                     THEN send_notification(s, c, alert_id, TRUE)
                     ELSE s
         IN  send_resolution_enabled_only(sent, channel_ids, i + 1, alert_id)

\* _send_resolution_notification(rule, alert): the rule's channels that exist,
\* enabled or not.
RECURSIVE send_resolution_notification(_, _, _, _)
send_resolution_notification(s, channel_ids, i, alert_id) ==
    IF i > Len(channel_ids) THEN s
    ELSE LET c == channel_ids[i]
             sent == IF c \in DOMAIN s.notification_channels
                     THEN send_notification(s, c, alert_id, TRUE)
                     ELSE s
         IN  send_resolution_notification(sent, channel_ids, i + 1, alert_id)

\* _create_alert_instance(db, rule, hostname, status, latency_ms)
create_alert_instance(s, rule_id, hostname, status, latency_ms, t) ==
    LET existing == ActiveIds(s.alert_instances, rule_id, hostname)
    IN  IF existing # {}
        THEN \* the update stays in the session: this branch does not commit
             LET k == MinOf(existing)
             IN  [s EXCEPT !.dirty = Put(@, k,
                    [Loaded(s, k) EXCEPT !.trigger_value = TriggerValue(status, latency_ms),
                                         !.notification_count = @ + 1])]
        ELSE LET alert == [rule_id |-> rule_id, hostname |-> hostname, status |-> "active",
                           triggered_at |-> t,
                           trigger_value |-> TriggerValue(status, latency_ms),
                           notification_count |-> 1, resolved_at |-> None,
                           acknowledged_at |-> None, acknowledged_by |-> "None"]
                 added == Commit([s EXCEPT !.alert_instances = Append(@, alert)])
             IN  send_alert_notifications(added, s.alert_rules[rule_id].notification_channels,
                                          1, Len(added.alert_instances))

\* The loop of _check_alert_resolution over the active alerts, in id order.
RECURSIVE ResolveEach(_, _, _, _, _, _)
ResolveEach(s, todo, rule_id, hostname, status, t) ==
    IF todo = {} THEN s
    ELSE LET k == MinOf(todo)
             rule == s.alert_rules[rule_id]
             next == IF ~should_trigger_alert(rule, hostname, status, None)
                     THEN send_resolution_notification(
                            [s EXCEPT !.dirty = Put(@, k,
                                [Loaded(s, k) EXCEPT !.status = "resolved",
                                                     !.resolved_at = Some(t)])],
                            rule.notification_channels, 1, k)
                     ELSE s
         IN  ResolveEach(next, todo \ {k}, rule_id, hostname, status, t)

\* _check_alert_resolution(db, rule, hostname, status)
check_alert_resolution(s, rule_id, hostname, status, t) ==
    Commit(ResolveEach(s, ActiveIds(s.alert_instances, rule_id, hostname),
                       rule_id, hostname, status, t))

\* EvaluateEach over every rule, disabled ones included.
RECURSIVE EvaluateEachAllRules(_, _, _, _, _, _)
EvaluateEachAllRules(s, i, hostname, status, latency_ms, t) ==
    IF i > Len(s.alert_rules) THEN s
    ELSE EvaluateEachAllRules(
            TheOne({x : x \in
                {IF should_trigger_alert(s.alert_rules[i], hostname, status, latency_ms)
                 THEN create_alert_instance(s, i, hostname, status, latency_ms, t)
                 ELSE check_alert_resolution(s, i, hostname, status, t)}}),
            i + 1, hostname, status, latency_ms, t)

\* The loop of evaluate_alert_rules over the enabled rules, in id order.
RECURSIVE EvaluateEach(_, _, _, _, _, _)
EvaluateEach(s, i, hostname, status, latency_ms, t) ==
    IF i > Len(s.alert_rules) THEN s
    ELSE IF ~s.alert_rules[i].enabled
    THEN EvaluateEach(s, i + 1, hostname, status, latency_ms, t)
    ELSE EvaluateEach(
            TheOne({x : x \in
                {IF should_trigger_alert(s.alert_rules[i], hostname, status, latency_ms)
                 THEN create_alert_instance(s, i, hostname, status, latency_ms, t)
                 ELSE check_alert_resolution(s, i, hostname, status, t)}}),
            i + 1, hostname, status, latency_ms, t)

\* evaluate_alert_rules(hostname, current_status, latency_ms): one session for
\* the whole loop; what it has not committed when it closes is dropped.
evaluate_alert_rules(rules, instances, channels, sent, hostname, status, latency_ms, t) ==
    LET opened == [alert_rules |-> rules, alert_instances |-> instances, dirty |-> <<>>,
                   notification_channels |-> channels, outbox |-> sent]
        closed == EvaluateEach(opened, 1, hostname, status, latency_ms, t)
    IN  [alert_instances |-> closed.alert_instances,
         notification_channels |-> closed.notification_channels,
         outbox |-> closed.outbox]

\* acknowledge_alert without the test of the instance's status.
acknowledge_alert_any_status(instances, alert_id, acknowledged_by, t) ==
    IF alert_id \in DOMAIN instances
    THEN [ok |-> TRUE,
          alert_instances |-> [instances EXCEPT ![alert_id].status = "acknowledged",
                                                ![alert_id].acknowledged_at = Some(t),
                                                ![alert_id].acknowledged_by = acknowledged_by]]
    ELSE [ok |-> FALSE, alert_instances |-> instances]

\* acknowledge_alert(alert_id, acknowledged_by)
acknowledge_alert(instances, alert_id, acknowledged_by, t) ==
    IF alert_id \in DOMAIN instances /\ instances[alert_id].status = "active"
    THEN [ok |-> TRUE,
          alert_instances |-> [instances EXCEPT ![alert_id].status = "acknowledged",
                                                ![alert_id].acknowledged_at = Some(t),
                                                ![alert_id].acknowledged_by = acknowledged_by]]
    ELSE [ok |-> FALSE, alert_instances |-> instances]

AlertInit ==
    /\ alert_rules \in AlertRuleSets
    /\ alert_instances = <<>>
    /\ notification_channels \in
          {<<[enabled |-> TRUE, delivers |-> d, success_count |-> 0, error_count |-> 0],
             [enabled |-> FALSE, delivers |-> TRUE, success_count |-> 0, error_count |-> 0]>>
              : d \in BOOLEAN}
    /\ outbox = <<>>
    /\ ackRet = FALSE
    /\ streak = 0

\* One call of evaluate_alert_rules(hostname, status, latency_ms).
Evaluate(hostname, status, latency_ms) ==
    /\ \E r \in {evaluate_alert_rules(alert_rules, alert_instances, notification_channels,
                                      outbox, hostname, status, latency_ms, now)} :
          /\ Len(r.alert_instances) <= MaxAlerts
          /\ \A k \in DOMAIN r.alert_instances :
                r.alert_instances[k].notification_count <= MaxNotificationCount
          /\ alert_instances' = r.alert_instances
          /\ notification_channels' = r.notification_channels
          /\ outbox' = r.outbox
    /\ streak' = IF hostname = "db1" /\ status = "Offline" /\ streak >= 0 /\ streak < MaxStreak
                 THEN streak + 1 ELSE -1
    /\ UNCHANGED <<alert_rules, ackRet>>

\* One call of acknowledge_alert(alert_id, "admin").
Acknowledge(alert_id) ==
    /\ \E r \in {acknowledge_alert(alert_instances, alert_id, "admin", now)} :
          /\ alert_instances' = r.alert_instances
          /\ ackRet' = r.ok
    /\ streak' = -1
    /\ UNCHANGED <<alert_rules, notification_channels, outbox>>

\* -------------------------------------------------------------------------
\* alert.py: the enabled column of a rule, cleared by who administers the
\* rule table while the evaluator runs
\* -------------------------------------------------------------------------
VARIABLES
    spared  \* the Active instances whose rule was disabled when
            \* evaluate_alert_rules was last called and whose condition did
            \* not hold for that call's arguments

adminVars == <<spared>>

AdminInit == spared = {}

\* AlertRule.enabled of rule r is set to false in the rule table.
DisableRule(r) ==
    /\ r \in DOMAIN alert_rules
    /\ alert_rules[r].enabled
    /\ alert_rules' = [alert_rules EXCEPT ![r].enabled = FALSE]
    /\ UNCHANGED <<alert_instances, notification_channels, outbox, ackRet, streak, spared>>

\* The Active instances of hostname that a call with these arguments would
\* resolve if their rules were not disabled.
SparedBy(hostname, status, latency_ms) ==
    {k \in DOMAIN alert_instances :
        /\ alert_instances[k].status = "active"
        /\ alert_instances[k].hostname = hostname
        /\ ~alert_rules[alert_instances[k].rule_id].enabled
        /\ ~should_trigger_alert(alert_rules[alert_instances[k].rule_id],
                                 hostname, status, latency_ms)}

AdminNext ==
    \/ \E r \in DOMAIN alert_rules : DisableRule(r)
    \/ \E h \in AlertHostnames, st \in AlertStatuses, l \in AlertLatencies :
          Evaluate(h, st, l) /\ spared' = SparedBy(h, st, l)
    \/ \E k \in 1..MaxAlerts : Acknowledge(k) /\ UNCHANGED spared

\* =========================================================================
\* app.py: GET /alerts, the hosts reported as offline for more than 5 minutes
\* =========================================================================
VARIABLES
    alertsResp,     \* the names in offline_machines of the last response
    offline_since   \* per host, the time of the check that began its present
                    \* run of Offline results (None when it is not Offline)

endpointVars == <<alertsResp, offline_since>>

EndpointInit ==
    /\ alertsResp = {}
    /\ offline_since = [h \in Hostnames |-> None]

\* alerts(): the entries with status Offline and a last_checked more than
\* 300 seconds old.
alerts(scache, t) ==
    {scache[h].name : h \in {x \in DOMAIN scache :
        /\ scache[x].status = "Offline"
        /\ scache[x].last_checked # None
        /\ t - scache[x].last_checked[1] > 300}}

\* One request of GET /alerts.
GetAlerts ==
    /\ started
    /\ alertsResp' = alerts(status_cache, clock)
    /\ UNCHANGED <<appVars, offline_since>>

\* A check made by a pass of worker_loop.
SchedCheck(m) ==
    /\ CheckHost(m)
    /\ offline_since' = [offline_since EXCEPT ![m.name] =
            IF status_cache'[m.name].status # "Offline" THEN None
            ELSE IF @ = None THEN Some(clock) ELSE @]
    /\ UNCHANGED alertsResp

\* Times are kept within a window of MaxTicks + 1 steps of the clock: once
\* the clock is at the end of the window, a further step moves the window's
\* origin instead, and every time kept becomes ClockStep smaller; a time that
\* would leave the window stays at 0, which then stands for the window's
\* length ago or longer, more than every duration the code compares with.
Back(t) == IF t > ClockStep THEN t - ClockStep ELSE 0
BackOpt(x) == IF x = None THEN None ELSE Some(Back(x[1]))

\* Time passes while worker_loop runs: its passes are CHECK_INTERVAL = 10
\* seconds apart, so every machine has been checked at the present time
\* before the clock moves by ClockStep.
SchedTick ==
    /\ started
    /\ \A m \in Submitted :
          /\ m.name \in DOMAIN status_cache
          /\ status_cache[m.name].last_checked = Some(clock)
    /\ IF clock + ClockStep <= (MaxTicks + 1) * ClockStep
       THEN /\ clock' = clock + ClockStep
            /\ UNCHANGED <<dns_cache, last_machines_load, status_cache, offline_since>>
       ELSE /\ clock' = clock
            /\ dns_cache' = [h \in DOMAIN dns_cache |->
                                [dns_cache[h] EXCEPT !.resolved_at = Back(@)]]
            /\ last_machines_load' = Back(last_machines_load)
            /\ status_cache' = [h \in DOMAIN status_cache |->
                                   [status_cache[h] EXCEPT !.last_checked = BackOpt(@)]]
            /\ offline_since' = [h \in Hostnames |-> BackOpt(offline_since[h])]
    /\ UNCHANGED <<resolveRet, lookupTimes, lastCallAt, started, csvFile, machines_cache,
                   history, checkRet, alertsResp>>

\* =========================================================================
\* app.py: ping_icmp_target, the ping command tried up to `retries` times
\* =========================================================================
\* The largest retries argument followed (the default, MAX_RETRIES, is 2).
MaxRetries == 2

\* What one subprocess.run of the ping command does: exit code 0, another
\* exit code, TimeoutExpired, or another exception (no ping binary).
PingOutcomes == {"zero", "nonzero", "timeout", "oserror"}
\* How long one run takes on the performance counter, in units of 25 us.
PingDurations == {1, 3}

VARIABLES
    ping_pc,        \* "idle", "loop", "returned" or "raised"
    ping_retries,   \* the retries argument of the call
    ping_attempt,   \* the loop variable
    ping_clock,     \* time.perf_counter(), in units of 25 us
    ping_log,       \* the runs of the command made by the call
    ping_ret        \* the pair returned

pingVars == <<ping_pc, ping_retries, ping_attempt, ping_clock, ping_log, ping_ret>>

NoPing == [ok |-> FALSE, latency |-> None]

PingInit ==
    /\ ping_pc = "idle"
    /\ ping_retries = 0
    /\ ping_attempt = 0
    /\ ping_clock = 0
    /\ ping_log = <<>>
    /\ ping_ret = NoPing

\* round((t1 - t0) * 1000.0, 1) of a difference of dt units of 25 us: the
\* latency in tenths of a millisecond (no difference followed is a tie).
RoundedLatency(dt) == (25 * dt + 50) \div 100

\* The except clause re-raising at the last attempt.
AfterExceptionReraiseLast(attempt, retries) ==
    IF attempt = retries - 1 THEN "raise" ELSE "continue"

\* The except clause: at the last attempt it logs and continues, at the
\* others it falls through to the next iteration.
AfterException(attempt, retries) ==
    IF attempt = retries - 1 THEN "continue" ELSE "continue"

\* ping_icmp_target(target, retries) is called.
PingCall(retries) ==
    /\ ping_pc \in {"idle", "returned"}
    /\ ping_pc' = "loop"
    /\ ping_retries' = retries
    /\ ping_attempt' = 0
    /\ ping_clock' = 0
    /\ ping_log' = <<>>
    /\ ping_ret' = NoPing

\* One iteration of `for attempt in range(retries)`.
PingAttempt(outcome, d) ==
    /\ ping_pc = "loop"
    /\ ping_attempt < ping_retries
    /\ LET t0 == ping_clock
           t1 == ping_clock + d
       IN  /\ ping_clock' = t1
           /\ ping_log' = Append(ping_log, [outcome |-> outcome, elapsed |-> d])
           /\ IF outcome = "zero"
              THEN /\ ping_ret' = [ok |-> TRUE, latency |-> Some(RoundedLatency(t1 - t0))]
                   /\ ping_pc' = "returned"
                   /\ UNCHANGED ping_attempt
              ELSE IF outcome = "nonzero"
                      \/ AfterException(ping_attempt, ping_retries) = "continue"
              THEN /\ ping_attempt' = ping_attempt + 1
                   /\ UNCHANGED <<ping_pc, ping_ret>>
              ELSE /\ ping_pc' = "raised"
                   /\ UNCHANGED <<ping_attempt, ping_ret>>
    /\ UNCHANGED ping_retries

\* The loop is over: return False, None.
PingExhausted ==
    /\ ping_pc = "loop"
    /\ ping_attempt >= ping_retries
    /\ ping_ret' = NoPing
    /\ ping_pc' = "returned"
    /\ UNCHANGED <<ping_retries, ping_attempt, ping_clock, ping_log>>

PingNext ==
    \/ \E retries \in 0..MaxRetries : PingCall(retries)
    \/ \E outcome \in PingOutcomes, d \in PingDurations : PingAttempt(outcome, d)
    \/ PingExhausted

\* =========================================================================
\* app.py: worker_loop, the scan passes and their thread pool
\* =========================================================================
\* A call of checar_um_host is followed here by how it ends and by what that
\* does to the host's StatusEntry and to the failed_checks counter; the
\* probes and the entry's content are those of the part above.
\* The pool's size, scaled down from the 32 of app.py, the largest inventory
\* and the number of iterations of the loop that are followed.
MAX_WORKERS == 2
MaxHosts == 3
MaxPasses == 2

VARIABLES
    pc,           \* where the monitoring thread is in worker_loop
    passNo,       \* the iterations of the while loop begun so far
    maquinas,     \* len(maquinas), the entries of this pass being 1..maquinas
    futures,      \* how many entries pool.submit has been called for
    queue,        \* the pool's work queue: <<pass, entry>> items not yet started
    running,      \* the <<pass, entry>> items a worker thread is executing
    ran,          \* per entry, how many times checar_um_host was started in this pass
    done,         \* the entries whose future holds its result
    collected,    \* per entry, how many times the loop took its future's result
    total_scans,  \* monitoring_stats["total_scans"]
    outcome,      \* per entry, how its call of checar_um_host ended in this pass
    stored,       \* the entries whose StatusEntry this pass has replaced
    failed_counts, \* per entry, the failed_checks += 1 executed for it in this pass
    fault         \* the last iteration ended in the except clause of worker_loop

loopVars == <<pc, passNo, maquinas, futures, queue, running, ran, done, collected,
              total_scans, outcome, stored, failed_counts, fault>>

Entries == 1..MaxHosts

\* How a call of checar_um_host ends: it returns its StatusEntry, it returns
\* it after more than the 5 seconds of future.result(timeout=5), or an
\* exception is raised inside its try block.
CheckOutcomes == {"returned", "overran", "raised"}

\* StoresEntry with the entry written whatever happened.
StoresEntryAlways(how) == TRUE

\* status_cache[hostname] = data is reached unless an exception was raised:
\* every statement after it is guarded by its own try/except.
StoresEntry(how) == how # "raised"

\* except Exception in checar_um_host: failed_checks += 1, return None.
ReturnsNone(how) == how = "raised"

\* AfterFault with the thread ending at the fault.
AfterFaultStop == "stopped"

\* The except clause of worker_loop: log, time.sleep(CHECK_INTERVAL), iterate.
AfterFault == "sleep"

\* PoolSize with a thread for every submitted task.
PoolSizeOnePerTask(max_workers, n) == n

\* ThreadPoolExecutor(max_workers=MAX_WORKERS): the threads the pool may run.
PoolSize(max_workers, n) == max_workers

\* as_completed(futures): the futures it can yield next, those that are done
\* and that it has not yielded yet.
AsCompleted(finished, taken) == {i \in finished : taken[i] = 0}

\* as_completed(futures) is exhausted: it has yielded every future.
Exhausted(n, taken) == \A i \in 1..n : taken[i] > 0

\* The end of the with block: shutdown(wait=True) returns once the pool has
\* nothing queued and nothing running.
PoolDrained(q, r) == q = <<>> /\ r = {}

\* AfterPass going straight to the next iteration.
AfterPassNoSleep == "load"

\* What follows a pass: time.sleep(CHECK_INTERVAL).
AfterPass == "sleep"

LoopInit ==
    /\ pc = "load"
    /\ passNo = 0
    /\ maquinas = 0
    /\ futures = 0
    /\ queue = <<>>
    /\ running = {}
    /\ ran = [i \in Entries |-> 0]
    /\ done = {}
    /\ collected = [i \in Entries |-> 0]
    /\ total_scans = 0
    /\ outcome = [i \in Entries |-> "pending"]
    /\ stored = {}
    /\ failed_counts = [i \in Entries |-> 0]
    /\ fault = FALSE

\* time.sleep(CHECK_INTERVAL) returns and the while loop iterates.
Wake ==
    /\ pc = "sleep"
    /\ passNo < MaxPasses
    /\ pc' = "load"
    /\ UNCHANGED <<passNo, maquinas, futures, queue, running, ran, done, collected,
                   total_scans, outcome, stored, failed_counts, fault>>

\* maquinas = carregar_maquinas(); an empty inventory sleeps and continues.
LoadPass ==
    /\ pc = "load"
    /\ passNo' = passNo + 1
    /\ \E n \in 0..MaxHosts :
          /\ maquinas' = n
          /\ pc' = IF n = 0 THEN "sleep" ELSE "submit"
    /\ futures' = 0
    /\ ran' = [i \in Entries |-> 0]
    /\ done' = {}
    /\ collected' = [i \in Entries |-> 0]
    /\ outcome' = [i \in Entries |-> "pending"]
    /\ stored' = {}
    /\ failed_counts' = [i \in Entries |-> 0]
    /\ fault' = FALSE
    /\ UNCHANGED <<queue, running, total_scans>>

\* An exception escapes the try block of worker_loop, raised by
\* carregar_maquinas or by the creation of the pool: nothing was submitted,
\* the pass is not counted, and the except clause sleeps.
PassFault ==
    /\ \/ /\ pc = "load"
          /\ passNo' = passNo + 1
          /\ maquinas' = 0
       \/ /\ pc = "submit"
          /\ futures = 0
          /\ UNCHANGED <<passNo, maquinas>>
    /\ fault' = TRUE
    /\ pc' = AfterFault
    /\ futures' = 0
    /\ ran' = [i \in Entries |-> 0]
    /\ done' = {}
    /\ collected' = [i \in Entries |-> 0]
    /\ outcome' = [i \in Entries |-> "pending"]
    /\ stored' = {}
    /\ failed_counts' = [i \in Entries |-> 0]
    /\ UNCHANGED <<queue, running, total_scans>>

\* One pool.submit(checar_um_host, m) of the list comprehension.
Submit ==
    /\ pc = "submit"
    /\ futures' = futures + 1
    /\ queue' = Append(queue, <<passNo, futures + 1>>)
    /\ pc' = IF futures + 1 = maquinas THEN "collect" ELSE "submit"
    /\ UNCHANGED <<passNo, maquinas, running, ran, done, collected, total_scans,
                   outcome, stored, failed_counts, fault>>

\* A worker thread takes the next work item and calls checar_um_host.
StartCheck ==
    /\ queue # <<>>
    /\ Cardinality(running) < PoolSize(MAX_WORKERS, maquinas)
    /\ running' = running \cup {Head(queue)}
    /\ queue' = Tail(queue)
    /\ ran' = [ran EXCEPT ![Head(queue)[2]] = @ + 1]
    /\ UNCHANGED <<pc, passNo, maquinas, futures, done, collected, total_scans,
                   outcome, stored, failed_counts, fault>>

\* checar_um_host returns, with a StatusEntry or None, and the future is done.
FinishCheck(w, how) ==
    /\ w \in running
    /\ running' = running \ {w}
    /\ done' = done \cup {w[2]}
    /\ outcome' = [outcome EXCEPT ![w[2]] = how]
    /\ stored' = IF StoresEntry(how) THEN stored \cup {w[2]} ELSE stored
    /\ failed_counts' = [failed_counts EXCEPT
                            ![w[2]] = IF ReturnsNone(how) THEN @ + 1 ELSE @]
    /\ UNCHANGED <<pc, passNo, maquinas, futures, queue, ran, collected, total_scans,
                   fault>>

\* One iteration of `for future in as_completed(futures)`: the future it
\* yields is done, so future.result(timeout=5) returns at once, and a result
\* of None is counted in failed_checks.
Collect ==
    /\ pc = "collect"
    /\ ~Exhausted(maquinas, collected)
    /\ \E i \in AsCompleted(done, collected) :
          /\ collected' = [collected EXCEPT ![i] = @ + 1]
          /\ failed_counts' = [failed_counts EXCEPT
                                  ![i] = IF ReturnsNone(outcome[i]) THEN @ + 1 ELSE @]
    /\ UNCHANGED <<pc, passNo, maquinas, futures, queue, running, ran, done, total_scans,
                   outcome, stored, fault>>

\* The for loop and the with block end, the pass is counted, the thread sleeps.
EndPass ==
    /\ pc = "collect"
    /\ Exhausted(maquinas, collected)
    /\ PoolDrained(queue, running)
    /\ total_scans' = total_scans + 1
    /\ pc' = AfterPass
    /\ UNCHANGED <<passNo, maquinas, futures, queue, running, ran, done, collected,
                   outcome, stored, failed_counts, fault>>

\* The steps of the monitoring thread and those of the pool's threads.
MainStep == Wake \/ LoadPass \/ PassFault \/ Submit \/ Collect \/ EndPass
WorkerStep == StartCheck \/ \E w \in running, how \in CheckOutcomes : FinishCheck(w, how)

\* -------------------------------------------------------------------------
\* app.py: monitoring_stats["successful_checks"] and ["failed_checks"], which
\* the pool's threads and the monitoring thread increment without a lock
\* -------------------------------------------------------------------------
VARIABLES
    successful_checks,  \* monitoring_stats["successful_checks"]
    failed_checks,      \* monitoring_stats["failed_checks"]
    wreg,               \* per entry, the thread running its check between the
                        \* load and the store of its `+= 1`: how the check
                        \* ends and the value loaded
    mreg                \* the same for the monitoring thread: the entry whose
                        \* result it holds and the value loaded

statsVars == <<successful_checks, failed_checks, wreg, mreg>>

StatsInit ==
    /\ successful_checks = 0
    /\ failed_checks = 0
    /\ wreg = [i \in Entries |-> None]
    /\ mreg = None

\* The start of an iteration; with a non-empty inventory both counters are
\* reset before the pool is created.
StatsLoadPass ==
    /\ LoadPass
    /\ IF maquinas' > 0
       THEN successful_checks' = 0 /\ failed_checks' = 0
       ELSE UNCHANGED <<successful_checks, failed_checks>>
    /\ UNCHANGED <<wreg, mreg>>

\* The call of checar_um_host for work item w reaches its `+= 1`, of
\* successful_checks at the end of the try block or of failed_checks in the
\* except clause, and loads the counter.
CheckLoad(w, how) ==
    /\ w \in running
    /\ wreg[w[2]] = None
    /\ wreg' = [wreg EXCEPT ![w[2]] =
                   Some([how |-> how,
                         val |-> IF ReturnsNone(how) THEN failed_checks
                                 ELSE successful_checks])]
    /\ UNCHANGED <<loopVars, successful_checks, failed_checks, mreg>>

\* It stores the value loaded plus one and returns.
CheckStore(w) ==
    /\ w \in running
    /\ wreg[w[2]] # None
    /\ FinishCheck(w, wreg[w[2]][1].how)
    /\ IF ReturnsNone(wreg[w[2]][1].how)
       THEN /\ failed_checks' = wreg[w[2]][1].val + 1
            /\ UNCHANGED successful_checks
       ELSE /\ successful_checks' = wreg[w[2]][1].val + 1
            /\ UNCHANGED failed_checks
    /\ wreg' = [wreg EXCEPT ![w[2]] = None]
    /\ UNCHANGED mreg

\* The monitoring thread got None from a future and loads failed_checks.
CollectLoad ==
    /\ pc = "collect"
    /\ mreg = None
    /\ \E i \in AsCompleted(done, collected) :
          /\ ReturnsNone(outcome[i])
          /\ mreg' = Some([entry |-> i, val |-> failed_checks])
    /\ UNCHANGED <<loopVars, successful_checks, failed_checks, wreg>>

\* The iteration of the for loop ends: for a result of None with the store
\* of failed_checks, for another result with nothing.
StatsCollect ==
    /\ Collect
    /\ LET i == CHOOSE i \in Entries : collected'[i] # collected[i]
       IN  IF ReturnsNone(outcome[i])
           THEN /\ mreg # None
                /\ mreg[1].entry = i
                /\ failed_checks' = mreg[1].val + 1
                /\ mreg' = None
           ELSE /\ mreg = None
                /\ UNCHANGED <<failed_checks, mreg>>
    /\ UNCHANGED <<successful_checks, wreg>>

StatsNext ==
    \/ Wake /\ UNCHANGED statsVars
    \/ StatsLoadPass
    \/ PassFault /\ UNCHANGED statsVars
    \/ Submit /\ UNCHANGED statsVars
    \/ StartCheck /\ UNCHANGED statsVars
    \/ \E w \in running, how \in CheckOutcomes : CheckLoad(w, how)
    \/ \E w \in running : CheckStore(w)
    \/ CollectLoad
    \/ StatsCollect
    \/ EndPass /\ UNCHANGED statsVars

\* =========================================================================
\* app.py : concurrent calls of resolve_hostname (the pool's threads)
\* =========================================================================
\* Dict objects created for dns_cache are followed up to MaxDnsWrites.
MaxDnsWrites == 2
\* The threads of the pool that call resolve_hostname at the same time.
Threads == {1, 2}

VARIABLES
    rclock,         \* time.time()
    dns_objs,       \* the dict objects created for dns_cache, by identity
    dns_refs,       \* dns_cache: hostname -> identity of its entry, 0 when absent
    rpc,            \* per thread, the statement of resolve_hostname it is at
    rloc,           \* per thread, its locals: hostname, now, cache_entry, ok, answer
    rret,           \* per thread, the pair it returns
    dns_written     \* every <<hostname, entry>> a resolution has written

dnsRaceVars == <<rclock, dns_objs, dns_refs, rpc, rloc, rret, dns_written>>

NoLocals == [hostname |-> "None", now |-> 0, cache_entry |-> 0, ok |-> FALSE,
             answer |-> "None"]
NoPair == [ip |-> "None", error |-> "None"]

DnsRaceInit ==
    /\ rclock = 0
    /\ dns_objs = <<>>
    /\ dns_refs = [h \in Hostnames |-> 0]
    /\ rpc = [t \in Threads |-> "idle"]
    /\ rloc = [t \in Threads |-> NoLocals]
    /\ rret = [t \in Threads |-> NoPair]
    /\ dns_written = {}

\* StoreEntry overwriting the fields of the existing dict in place.
StoreEntryInPlace(objs, refs, hostname, entry) ==
    IF refs[hostname] # 0
    THEN [objs |-> [objs EXCEPT ![refs[hostname]] = entry], refs |-> refs]
    ELSE [objs |-> Append(objs, entry),
          refs |-> [refs EXCEPT ![hostname] = Len(objs) + 1]]

\* dns_cache[hostname] = {...}: a new dict object replaces the entry.
StoreEntry(objs, refs, hostname, entry) ==
    [objs |-> Append(objs, entry),
     refs |-> [refs EXCEPT ![hostname] = Len(objs) + 1]]

\* time.time() moves on by the TTL, once: the entries written before are stale.
RaceTick ==
    /\ rclock = 0
    /\ rclock' = DNS_CACHE_TTL
    /\ UNCHANGED <<dns_objs, dns_refs, rpc, rloc, rret, dns_written>>

\* resolve_hostname(hostname) is entered: now = time.time()
RCall(t, hostname) ==
    /\ rpc[t] = "idle"
    /\ rloc' = [rloc EXCEPT ![t] = [NoLocals EXCEPT !.hostname = hostname, !.now = rclock]]
    /\ rret' = [rret EXCEPT ![t] = NoPair]
    /\ rpc' = [rpc EXCEPT ![t] = "in"]
    /\ UNCHANGED <<rclock, dns_objs, dns_refs, dns_written>>

\* if hostname in dns_cache
RTestIn(t) ==
    /\ rpc[t] = "in"
    /\ rpc' = [rpc EXCEPT ![t] = IF dns_refs[rloc[t].hostname] # 0 THEN "get" ELSE "lookup"]
    /\ UNCHANGED <<rclock, dns_objs, dns_refs, rloc, rret, dns_written>>

\* cache_entry = dns_cache[hostname]
RGet(t) ==
    /\ rpc[t] = "get"
    /\ rloc' = [rloc EXCEPT ![t].cache_entry = dns_refs[rloc[t].hostname]]
    /\ rpc' = [rpc EXCEPT ![t] = "age"]
    /\ UNCHANGED <<rclock, dns_objs, dns_refs, rret, dns_written>>

\* if (now - cache_entry["resolved_at"]) < 300
RAge(t) ==
    /\ rpc[t] = "age"
    /\ rpc' = [rpc EXCEPT ![t] =
                  IF (rloc[t].now - dns_objs[rloc[t].cache_entry].resolved_at) < DNS_CACHE_TTL
                  THEN "ok" ELSE "lookup"]
    /\ UNCHANGED <<rclock, dns_objs, dns_refs, rloc, rret, dns_written>>

\* if cache_entry["ok"]
RReadOk(t) ==
    /\ rpc[t] = "ok"
    /\ rloc' = [rloc EXCEPT ![t].ok = dns_objs[rloc[t].cache_entry].ok]
    /\ rpc' = [rpc EXCEPT ![t] = "field"]
    /\ UNCHANGED <<rclock, dns_objs, dns_refs, rret, dns_written>>

\* return cache_entry["ip"], None  /  return None, cache_entry["error"]
RReadField(t) ==
    /\ rpc[t] = "field"
    /\ rret' = [rret EXCEPT ![t] =
                   IF rloc[t].ok
                   THEN [ip |-> dns_objs[rloc[t].cache_entry].ip, error |-> "None"]
                   ELSE [ip |-> "None", error |-> dns_objs[rloc[t].cache_entry].error]]
    /\ rpc' = [rpc EXCEPT ![t] = "done"]
    /\ UNCHANGED <<rclock, dns_objs, dns_refs, rloc, dns_written>>

\* ip = socket.gethostbyname(hostname), or its exception
RLookup(t) ==
    /\ rpc[t] = "lookup"
    /\ Len(dns_objs) + Cardinality({u \in Threads : rpc[u] = "store"}) < MaxDnsWrites
    /\ \E answer \in {"None", RESOLVED_IP} :
         rloc' = [rloc EXCEPT ![t].answer = answer]
    /\ rpc' = [rpc EXCEPT ![t] = "store"]
    /\ UNCHANGED <<rclock, dns_objs, dns_refs, rret, dns_written>>

\* dns_cache[hostname] = {...}; return ip, None  /  return None, error_msg
RStore(t) ==
    /\ rpc[t] = "store"
    /\ LET l == rloc[t]
           entry == IF l.answer # "None"
                    THEN [ip |-> l.answer, resolved_at |-> l.now, ok |-> TRUE,
                          error |-> "None"]
                    ELSE [ip |-> "None", resolved_at |-> l.now, ok |-> FALSE,
                          error |-> "DNS resolution failed"]
           s == StoreEntry(dns_objs, dns_refs, l.hostname, entry)
       IN  /\ dns_objs' = s.objs
           /\ dns_refs' = s.refs
           /\ rret' = [rret EXCEPT ![t] = [ip |-> entry.ip, error |-> entry.error]]
           /\ dns_written' = dns_written \cup {<<l.hostname, entry>>}
    /\ rpc' = [rpc EXCEPT ![t] = "done"]
    /\ UNCHANGED <<rclock, rloc>>

\* The caller has the pair; the thread is free for its next call.
RReturn(t) ==
    /\ rpc[t] = "done"
    /\ rpc' = [rpc EXCEPT ![t] = "idle"]
    /\ rloc' = [rloc EXCEPT ![t] = NoLocals]
    /\ rret' = [rret EXCEPT ![t] = NoPair]
    /\ UNCHANGED <<rclock, dns_objs, dns_refs, dns_written>>

DnsRaceNext ==
    \/ RaceTick
    \/ \E t \in Threads, h \in Hostnames : RCall(t, h)
    \/ \E t \in Threads : RTestIn(t)
    \/ \E t \in Threads : RGet(t)
    \/ \E t \in Threads : RAge(t)
    \/ \E t \in Threads : RReadOk(t)
    \/ \E t \in Threads : RReadField(t)
    \/ \E t \in Threads : RLookup(t)
    \/ \E t \in Threads : RStore(t)
    \/ \E t \in Threads : RReturn(t)

\* =========================================================================
\* app.py : checar_um_host in the pool's threads while /status is served
\* =========================================================================
\* Checks are followed up to MaxChecks calls of checar_um_host.
MaxChecks == 2

VARIABLES
    st_objs,        \* the dict objects created for status_cache: identity -> dict
    st_refs,        \* status_cache: hostname -> identity of its entry
    serial,         \* calls of checar_um_host begun so far
    cpc,            \* per thread, the step of CheckSteps it is at, 0 when free
    cloc,           \* per thread, the locals of its check
    spc,            \* the statement the /status handler is at
    items,          \* its list of entries, by identity
    cur,            \* the fields of the current entry it has read so far
    resp,           \* the response items it has completed
    st_stored       \* every entry as it was when stored in status_cache

stRaceVars == <<st_objs, st_refs, serial, cpc, cloc, spc, items, cur, resp, st_stored>>

\* The keys of a StatusEntry in the order in which status() reads them.
StatusFields == <<"name", "ip", "status", "last_checked", "latency_ms", "reason",
                  "method", "ip_changed">>

\* inicializar_cache has run for the two machines.
InitialEntry(hostname) ==
    [name |-> hostname, ip |-> "None", status |-> "Desconhecido",
     last_checked |-> None, latency_ms |-> None, reason |-> "None",
     method |-> "None", ip_changed |-> FALSE]

NoCheckLocals == [hostname |-> "None", stamp |-> 0, existing |-> 0, data |-> 0,
                  changed |-> FALSE]

StRaceInit ==
    /\ st_objs = (1 :> InitialEntry("db1")) @@ (2 :> InitialEntry("web1"))
    /\ st_refs = ("db1" :> 1) @@ ("web1" :> 2)
    /\ serial = 0
    /\ cpc = [t \in Threads |-> 0]
    /\ cloc = [t \in Threads |-> NoCheckLocals]
    /\ spc = "idle"
    /\ items = <<>>
    /\ cur = <<>>
    /\ resp = <<>>
    /\ st_stored = {InitialEntry("db1"), InitialEntry("web1")}

\* CheckSteps with the entry stored before the ip_changed flag is set on it.
CheckStepsStoreFirst == <<"build", "store", "flag">>

\* The statements of checar_um_host that touch the entry, in program order:
\* data = {...}; data["ip_changed"] = True; status_cache[hostname] = data
CheckSteps == <<"build", "flag", "store">>

StepDone(t) ==
    cpc' = [cpc EXCEPT ![t] = IF cpc[t] = Len(CheckSteps) THEN 0 ELSE cpc[t] + 1]

\* checar_um_host(host) has resolved and probed: now = agora_brasilia();
\* existing = status_cache.get(hostname, {}). The pool runs the call in its
\* first free thread.
CBegin(t, hostname) ==
    /\ cpc[t] = 0
    /\ \A u \in Threads : u < t => cpc[u] # 0
    /\ serial < MaxChecks
    /\ serial' = serial + 1
    /\ cloc' = [cloc EXCEPT ![t] = [NoCheckLocals EXCEPT
                    !.hostname = hostname, !.stamp = serial + 1,
                    !.existing = st_refs[hostname]]]
    /\ cpc' = [cpc EXCEPT ![t] = 1]
    /\ UNCHANGED <<st_objs, st_refs, spc, items, cur, resp, st_stored>>

\* data = {...} with the status and the address that the probes gave. The
\* new dict is identified by the number of its check.
CBuild(t) ==
    /\ cpc[t] > 0 /\ CheckSteps[cpc[t]] = "build"
    /\ \E new_status \in {"Online", "Offline"}, final_ip \in {RESOLVED_IP, "10.0.0.9"} :
         LET l == cloc[t]
             existing == st_objs[l.existing]
             data == [name |-> l.hostname, ip |-> final_ip, status |-> new_status,
                      last_checked |-> Some(l.stamp),
                      latency_ms |-> IF new_status = "Online" THEN Some(l.stamp) ELSE None,
                      reason |-> "None", method |-> "HOSTNAME", ip_changed |-> FALSE]
             id == Cardinality(Hostnames) + l.stamp
         IN  /\ st_objs' = Put(st_objs, id, data)
             /\ cloc' = [cloc EXCEPT ![t] = [NoCheckLocals EXCEPT
                             !.hostname = l.hostname, !.data = id,
                             !.changed = IpChanged(existing.ip, final_ip)]]
    /\ StepDone(t)
    /\ UNCHANGED <<st_refs, serial, spc, items, cur, resp, st_stored>>

\* if old_ip != final_ip: data["ip_changed"] = True
CFlag(t) ==
    /\ cpc[t] > 0 /\ CheckSteps[cpc[t]] = "flag"
    /\ st_objs' = IF cloc[t].changed
                  THEN [st_objs EXCEPT ![cloc[t].data].ip_changed = TRUE]
                  ELSE st_objs
    /\ StepDone(t)
    /\ UNCHANGED <<st_refs, serial, cloc, spc, items, cur, resp, st_stored>>

\* status_cache[hostname] = data
CStore(t) ==
    /\ cpc[t] > 0 /\ CheckSteps[cpc[t]] = "store"
    /\ st_refs' = [st_refs EXCEPT ![cloc[t].hostname] = cloc[t].data]
    /\ st_stored' = st_stored \cup {st_objs[cloc[t].data]}
    /\ StepDone(t)
    /\ UNCHANGED <<st_objs, serial, cloc, spc, items, cur, resp>>

\* The sort key of status(): (x["status"] != "Online", x["name"].lower())
NameRank == ("db1" :> 1) @@ ("web1" :> 2)
SortKey(e) == (IF e.status # "Online" THEN 2 ELSE 0) + NameRank[e.name]

\* items = list(status_cache.values()); items.sort(key=...)
SortedItems(objs, refs) ==
    LET a == refs["db1"]
        b == refs["web1"]
    IN  IF SortKey(objs[a]) <= SortKey(objs[b]) THEN <<a, b>> ELSE <<b, a>>

SSnapshot ==
    /\ spc = "idle"
    /\ items' = SortedItems(st_objs, st_refs)
    /\ cur' = <<>>
    /\ resp' = <<>>
    /\ spc' = "read"
    /\ UNCHANGED <<st_objs, st_refs, serial, cpc, cloc, st_stored>>

\* formatar_data_br(dt): the time as text in the Brasilia format
formatar_data_br(dt) == IF dt = None THEN None ELSE <<"dd/mm/yyyy HH:MM:SS", dt[1]>>

\* The response item made of the eight values read, in the order of StatusFields.
ResponseItem(v) ==
    [name |-> v[1], ip |-> v[2], status |-> v[3],
     time_last_checked |-> IF v[4] # None THEN formatar_data_br(v[4]) ELSE None,
     latency_ms |-> v[5], reason |-> v[6], method |-> v[7], ip_changed |-> v[8]]

\* One subscript it[...] of the loop body; the eighth completes resp.append.
SReadField ==
    /\ spc = "read"
    /\ Len(resp) < Len(items)
    /\ LET it == st_objs[items[Len(resp) + 1]]
           v == Append(cur, it[StatusFields[Len(cur) + 1]])
       IN  IF Len(v) = Len(StatusFields)
           THEN resp' = Append(resp, ResponseItem(v)) /\ cur' = <<>>
           ELSE cur' = v /\ resp' = resp
    /\ UNCHANGED <<st_objs, st_refs, serial, cpc, cloc, spc, items, st_stored>>

\* return jsonify(resp)
SRespond ==
    /\ spc = "read"
    /\ Len(resp) = Len(items)
    /\ spc' = "idle"
    /\ items' = <<>>
    /\ resp' = <<>>
    /\ UNCHANGED <<st_objs, st_refs, serial, cpc, cloc, cur, st_stored>>

StRaceNext ==
    \/ \E t \in Threads, h \in Hostnames : CBegin(t, h)
    \/ \E t \in Threads : CBuild(t)
    \/ \E t \in Threads : CFlag(t)
    \/ \E t \in Threads : CStore(t)
    \/ SSnapshot
    \/ SReadField
    \/ SRespond

\* =========================================================================
\* src/services/alerts.py: evaluate_alert_rules called by two callers at once
\* =========================================================================
\* The callers of evaluate_alert_rules for db1: a scheduled check and a forced one.
Callers == {"scheduled", "forced"}

VARIABLES
    epc,    \* per caller, the statement of evaluate_alert_rules it is at
    eloc    \* per caller, its locals: the status it was called with, the rule
            \* index, what its query found, the row it added, its session's
            \* uncommitted updates

alertRaceVars == <<epc, eloc>>

NoEvalLocals == [status |-> "None", i |-> 0, existing |-> {}, alert |-> 0, dirty |-> <<>>]

AlertRaceInit ==
    /\ epc = [c \in Callers |-> "idle"]
    /\ eloc = [c \in Callers |-> NoEvalLocals]

\* The session of caller c: the tables as committed, and its own pending rows.
Session(c) ==
    [alert_rules |-> alert_rules, alert_instances |-> alert_instances,
     dirty |-> eloc[c].dirty,
     notification_channels |-> notification_channels, outbox |-> outbox]

\* evaluate_alert_rules("db1", status): the session is opened and the rules
\* are loaded.
ECall(c, status) ==
    /\ epc[c] = "idle"
    /\ eloc' = [eloc EXCEPT ![c] = [NoEvalLocals EXCEPT !.status = status, !.i = 1]]
    /\ epc' = [epc EXCEPT ![c] = "rule"]
    /\ UNCHANGED alertVars

\* for rule in rules: should_trigger, then the query for the Active rows of
\* (rule, hostname) that either branch starts with; after the last rule the
\* session closes and drops what it has not committed.
ERule(c) ==
    /\ epc[c] = "rule"
    /\ LET l == eloc[c]
       IN  IF l.i > Len(alert_rules)
           THEN /\ epc' = [epc EXCEPT ![c] = "idle"]
                /\ eloc' = [eloc EXCEPT ![c] = NoEvalLocals]
           ELSE IF ~alert_rules[l.i].enabled
           THEN /\ epc' = epc
                /\ eloc' = [eloc EXCEPT ![c].i = l.i + 1]
           ELSE /\ eloc' = [eloc EXCEPT ![c].existing =
                               ActiveIds(alert_instances, l.i, "db1")]
                /\ epc' = [epc EXCEPT ![c] =
                              IF should_trigger_alert(alert_rules[l.i], "db1", l.status, None)
                              THEN "create" ELSE "resolve"]
    /\ UNCHANGED alertVars

\* _create_alert_instance after its query: update the row found, or add a
\* row and commit.
ECreate(c) ==
    /\ epc[c] = "create"
    /\ LET l == eloc[c]
           s == Session(c)
       IN  IF l.existing # {}
           THEN LET k == MinOf(l.existing)
                IN  /\ eloc' = [eloc EXCEPT
                          ![c].dirty = Put(@, k,
                              [Loaded(s, k) EXCEPT
                                  !.trigger_value = TriggerValue(l.status, None),
                                  !.notification_count = @ + 1]),
                          ![c].i = l.i + 1]
                    /\ epc' = [epc EXCEPT ![c] = "rule"]
                    /\ UNCHANGED alert_instances
           ELSE /\ Len(alert_instances) < MaxAlerts
                /\ alert_instances' =
                      Commit([s EXCEPT !.alert_instances = Append(@,
                             [rule_id |-> l.i, hostname |-> "db1", status |-> "active",
                              triggered_at |-> now,
                              trigger_value |-> TriggerValue(l.status, None),
                              notification_count |-> 1, resolved_at |-> None,
                              acknowledged_at |-> None, acknowledged_by |-> "None"])]
                            ).alert_instances
                /\ eloc' = [eloc EXCEPT ![c].alert = Len(alert_instances) + 1,
                                        ![c].dirty = <<>>]
                /\ epc' = [epc EXCEPT ![c] = "send"]
    /\ UNCHANGED <<alert_rules, notification_channels, outbox, ackRet, streak>>

\* self._send_alert_notifications(rule, alert)
ESend(c) ==
    /\ epc[c] = "send"
    /\ LET l == eloc[c]
           s == send_alert_notifications(Session(c),
                    alert_rules[l.i].notification_channels, 1, l.alert)
       IN  /\ notification_channels' = s.notification_channels
           /\ outbox' = s.outbox
           /\ eloc' = [eloc EXCEPT ![c].i = l.i + 1, ![c].alert = 0]
    /\ epc' = [epc EXCEPT ![c] = "rule"]
    /\ UNCHANGED <<alert_rules, alert_instances, ackRet, streak>>

\* _check_alert_resolution after its query: each row found is resolved and
\* its resolution notification sent, then the session commits.
EResolve(c) ==
    /\ epc[c] = "resolve"
    /\ LET l == eloc[c]
           s == Commit(ResolveEach(Session(c), l.existing, l.i, "db1", l.status, now))
       IN  /\ alert_instances' = s.alert_instances
           /\ notification_channels' = s.notification_channels
           /\ outbox' = s.outbox
           /\ eloc' = [eloc EXCEPT ![c].i = l.i + 1, ![c].dirty = <<>>]
    /\ epc' = [epc EXCEPT ![c] = "rule"]
    /\ UNCHANGED <<alert_rules, ackRet, streak>>

AlertRaceNext ==
    \/ \E c \in Callers, st \in AlertStatuses : ECall(c, st)
    \/ \E c \in Callers : ERule(c)
    \/ \E c \in Callers : ECreate(c)
    \/ \E c \in Callers : ESend(c)
    \/ \E c \in Callers : EResolve(c)

raceVars == <<dnsRaceVars, stRaceVars, alertRaceVars>>
RaceInit == DnsRaceInit /\ StRaceInit /\ AlertRaceInit

\* =========================================================================
\* The specifications
\* =========================================================================
extraVars == <<adminVars, pingVars, statsVars, endpointVars>>
ExtraInit == AdminInit /\ PingInit /\ StatsInit /\ EndpointInit
restVars == <<raceVars, extraVars>>
RestInit == RaceInit /\ ExtraInit
vars == <<monVars, appVars, alertVars, loopVars, restVars>>

\* The monitoring service with the one host of the end-to-end scenario, for
\* the specifications that are about the other subsystems.
MonParked ==
    /\ MonInit
    /\ host.fallback_ip = FALLBACK_IP
    /\ host.check_types = {}
    /\ host.tcp_ports = <<3389, 445>>

\* The legacy application with the first inventory, before its start.
AppParked == AppInit /\ csvFile = <<DB1>>

\* The alert service with the one rule of the end-to-end scenario.
AlertParked ==
    /\ AlertInit
    /\ alert_rules = <<R_OFFLINE>>
    /\ notification_channels[1].delivers

\* check_host_comprehensive under an operator who sets maintenance windows.
MonSpecNext == MonNext /\ UNCHANGED <<appVars, alertVars, loopVars, restVars>>
MonSpecInit == MonInit /\ AppParked /\ AlertParked /\ LoopInit /\ RestInit
SpecMon == MonSpecInit /\ [][MonSpecNext]_vars

\* The force-check endpoint called again and again for a host probed by ICMP.
ForceSpecNext == ForceNext /\ UNCHANGED <<appVars, alertVars, loopVars, restVars>>
ForceSpecInit ==
    /\ MonSpecInit
    /\ host.check_types = {"icmp"}
    /\ host.tcp_ports = <<>>
SpecForce == ForceSpecInit /\ [][ForceSpecNext]_vars

\* resolve_hostname called sequentially as time passes.
DnsNext ==
    \/ AdvanceClock /\ UNCHANGED <<monVars, alertVars, loopVars, restVars>>
    \/ \E h \in Hostnames : Resolve(h) /\ UNCHANGED <<monVars, alertVars, loopVars, restVars>>
DnsInit == MonParked /\ AppParked /\ AlertParked /\ LoopInit /\ RestInit
SpecDns == DnsInit /\ [][DnsNext]_vars

\* checar_um_host called sequentially on the machines of the inventory.
AppNext ==
    \/ AdvanceClock /\ UNCHANGED <<monVars, alertVars, loopVars, restVars>>
    \/ inicializar_cache /\ UNCHANGED <<monVars, alertVars, loopVars, restVars>>
    \/ LoadMachines /\ UNCHANGED <<monVars, alertVars, loopVars, restVars>>
    \/ \E m \in Submitted : CheckHost(m) /\ UNCHANGED <<monVars, alertVars, loopVars, restVars>>
AppSpecInit == MonParked /\ AppInit /\ AlertParked /\ LoopInit /\ RestInit
SpecApp == AppSpecInit /\ [][AppNext]_vars

\* The same with an inventory that is edited while the program runs.
InvNext ==
    \/ AppNext
    \/ EditCsv /\ UNCHANGED <<monVars, alertVars, loopVars, restVars>>
InvSpecInit == MonParked /\ AppParked /\ AlertParked /\ LoopInit /\ RestInit
SpecInv == InvSpecInit /\ [][InvNext]_vars

\* The same with a history table whose commits all succeed.
Persisted == checkRet'.ipWrite # "failed" /\ checkRet'.statusWrite # "failed"
PersistedNext ==
    \/ AdvanceClock /\ UNCHANGED <<monVars, alertVars, loopVars, restVars>>
    \/ inicializar_cache /\ UNCHANGED <<monVars, alertVars, loopVars, restVars>>
    \/ LoadMachines /\ UNCHANGED <<monVars, alertVars, loopVars, restVars>>
    \/ \E m \in Submitted :
          CheckHost(m) /\ Persisted /\ UNCHANGED <<monVars, alertVars, loopVars, restVars>>
    \/ EditCsv /\ UNCHANGED <<monVars, alertVars, loopVars, restVars>>
SpecInvPersisted == InvSpecInit /\ [][PersistedNext]_vars

\* evaluate_alert_rules and acknowledge_alert called sequentially.
AlertNext ==
    \/ \E h \in AlertHostnames, st \in AlertStatuses, l \in AlertLatencies :
          Evaluate(h, st, l) /\ UNCHANGED <<monVars, appVars, loopVars, restVars>>
    \/ \E k \in 1..MaxAlerts : Acknowledge(k) /\ UNCHANGED <<monVars, appVars, loopVars, restVars>>
AlertSpecInit == MonParked /\ AppParked /\ AlertInit /\ LoopInit /\ RestInit
SpecAlert == AlertSpecInit /\ [][AlertNext]_vars

\* worker_loop checking the inventory as time passes, and GET /alerts polled.
EndpointRest == <<monVars, alertVars, loopVars, raceVars, adminVars, pingVars, statsVars>>
EndpointCheck == \E m \in Submitted : SchedCheck(m) /\ UNCHANGED EndpointRest
EndpointTick == SchedTick /\ UNCHANGED EndpointRest
EndpointPoll == GetAlerts /\ UNCHANGED EndpointRest
EndpointNext ==
    \/ inicializar_cache /\ UNCHANGED <<monVars, alertVars, loopVars, restVars>>
    \/ EndpointCheck
    \/ EndpointTick
    \/ EndpointPoll
EndpointSpecInit == AppSpecInit /\ csvFile = <<WEB1>>
SpecEndpoint ==
    /\ EndpointSpecInit
    /\ [][EndpointNext]_vars
    /\ WF_vars(EndpointCheck)
    /\ WF_vars(EndpointTick)
    /\ WF_vars(EndpointPoll)

\* worker_loop with the two counters of monitoring_stats.
StatsSpecNext == StatsNext /\ UNCHANGED <<monVars, appVars, alertVars, raceVars, adminVars, pingVars, endpointVars>>
StatsSpecInit == MonParked /\ AppParked /\ AlertParked /\ LoopInit /\ RestInit
SpecStats == StatsSpecInit /\ [][StatsSpecNext]_vars

\* ping_icmp_target called again and again.
PingSpecNext == PingNext /\ UNCHANGED <<monVars, appVars, alertVars, loopVars, raceVars, adminVars, statsVars, endpointVars>>
PingSpecInit == MonParked /\ AppParked /\ AlertParked /\ LoopInit /\ RestInit
SpecPing == PingSpecInit /\ [][PingSpecNext]_vars

\* The same while rules are being disabled.
AdminSpecNext == AdminNext /\ UNCHANGED <<monVars, appVars, loopVars, raceVars, pingVars, statsVars, endpointVars>>
SpecAlertAdmin == AlertSpecInit /\ [][AdminSpecNext]_vars

\* worker_loop and the threads of its pool, interleaved.
LoopNext ==
    \/ Wake /\ UNCHANGED <<monVars, appVars, alertVars, restVars>>
    \/ LoadPass /\ UNCHANGED <<monVars, appVars, alertVars, restVars>>
    \/ Submit /\ UNCHANGED <<monVars, appVars, alertVars, restVars>>
    \/ Collect /\ UNCHANGED <<monVars, appVars, alertVars, restVars>>
    \/ EndPass /\ UNCHANGED <<monVars, appVars, alertVars, restVars>>
    \/ StartCheck /\ UNCHANGED <<monVars, appVars, alertVars, restVars>>
    \/ \E w \in running, how \in CheckOutcomes :
          FinishCheck(w, how) /\ UNCHANGED <<monVars, appVars, alertVars, restVars>>
    \/ PassFault /\ UNCHANGED <<monVars, appVars, alertVars, restVars>>
LoopSpecInit == MonParked /\ AppParked /\ AlertParked /\ LoopInit /\ RestInit
SpecLoop == LoopSpecInit /\ [][LoopNext]_vars

\* The same, the monitoring thread and the pool's threads being scheduled: a
\* sleep ends, a call returns, and every check returns (each of its probes
\* and writes has a timeout).
SpecLoopFair ==
    /\ LoopSpecInit
    /\ [][LoopNext]_vars
    /\ WF_vars(MainStep /\ UNCHANGED <<monVars, appVars, alertVars, restVars>>)
    /\ WF_vars(WorkerStep /\ UNCHANGED <<monVars, appVars, alertVars, restVars>>)

\* resolve_hostname called by the threads of the pool, interleaved statement
\* by statement.
DnsRaceSpecNext ==
    DnsRaceNext /\ UNCHANGED <<monVars, appVars, alertVars, loopVars, stRaceVars, alertRaceVars, extraVars>>
DnsRaceSpecInit == MonParked /\ AppParked /\ AlertParked /\ LoopInit /\ RestInit
SpecDnsRace == DnsRaceSpecInit /\ [][DnsRaceSpecNext]_vars

\* checar_um_host in the threads of the pool and the /status handler,
\* interleaved statement by statement.
StRaceSpecNext ==
    StRaceNext /\ UNCHANGED <<monVars, appVars, alertVars, loopVars, dnsRaceVars, alertRaceVars, extraVars>>
StRaceSpecInit == MonParked /\ AppParked /\ AlertParked /\ LoopInit /\ RestInit
SpecStatusRace == StRaceSpecInit /\ [][StRaceSpecNext]_vars

\* Two callers inside evaluate_alert_rules for db1 at the same time.
AlertRaceSpecNext ==
    AlertRaceNext /\ UNCHANGED <<monVars, appVars, loopVars, dnsRaceVars, stRaceVars, extraVars>>
AlertRaceSpecInit == MonParked /\ AppParked /\ AlertParked /\ LoopInit /\ RestInit
SpecAlertRace == AlertRaceSpecInit /\ [][AlertRaceSpecNext]_vars


\* =========================================================================
\* Properties of check_host_comprehensive
\* =========================================================================
\* Some probe recorded under key k of the checks dictionary succeeded.
KeySucceeded(checks, k) ==
    /\ k \in DOMAIN checks
    /\ IF k = "tcp"
       THEN \E i \in 1..Len(checks[k]) : checks[k][i].success
       ELSE checks[k].success

\* The check ran outside a maintenance window and returned.
Checked == results # NoResult /\ results.overall_status \notin {"Maintenance", "TypeError"}

\* C1 (as claimed): outside maintenance the status is Online iff some recorded
\* result among DNS, ICMP, TCP, HTTP, HTTPS succeeded, and Offline otherwise.
C1_OnlineIffAnyRecordedSuccess ==
    Checked =>
        /\ results.overall_status \in {"Online", "Offline"}
        /\ results.overall_status = "Online" <=>
              \E k \in {"dns", "icmp", "tcp", "http", "https"} :
                  KeySucceeded(results.checks, k)

\* C1 (amended): outside maintenance the status is Online iff some recorded
\* probe result among ICMP, TCP, HTTP, HTTPS succeeded, and Offline otherwise;
\* a successful DNS resolution alone does not make the host Online.
C1_OnlineIffAnyProbeSuccess ==
    Checked =>
        /\ results.overall_status \in {"Online", "Offline"}
        /\ results.overall_status = "Online" <=>
              \E k \in {"icmp", "tcp", "http", "https"} :
                  KeySucceeded(results.checks, k)

\* C1 witness: an Online result that rests on a TCP port alone, after a failed
\* DNS resolution and a failed ICMP probe.
C1_Witness ==
    /\ Checked
    /\ results.overall_status = "Online"
    /\ ~results.checks["dns"].success
    /\ "icmp" \in DOMAIN results.checks /\ ~results.checks["icmp"].success
    /\ KeySucceeded(results.checks, "tcp")

\* The host is inside its maintenance window at time t.
InMaintenanceWindow(h, t) ==
    h.in_maintenance /\ (h.maintenance_until = None \/ h.maintenance_until[1].at > t)

\* C2: a call made while the host is in maintenance and maintenance_until is
\* unset or in the future returns Maintenance, invokes neither the resolver nor
\* a prober, and leaves the maintenance flag and end time as they were.
C2_MaintenanceSkipsChecks ==
    [][(results = NoResult /\ results' # NoResult /\ InMaintenanceWindow(host, now))
        => /\ results'.overall_status = "Maintenance"
           /\ calls' = <<>>
           /\ host' = host]_vars

\* C2 witness: a call made for a host whose window ends in the future, the
\* end time being stored without a timezone, has raised instead of returning
\* Maintenance.
C2_Witness ==
    /\ results # NoResult
    /\ results.overall_status = "TypeError"
    /\ host.in_maintenance
    /\ host.maintenance_until # None /\ host.maintenance_until[1].at > now

\* The maintenance window of h has an end time that lies before t.
WindowPassed(h, t) ==
    h.in_maintenance /\ h.maintenance_until # None /\ h.maintenance_until[1].at < t

\* C23: a call made when in_maintenance is set and maintenance_until has
\* passed clears the flag and the end time in the host store, and the same
\* call goes on to resolve and probe: it returns Online or Offline, never
\* Maintenance.
C23_ExpiredWindowCleared ==
    [][(results = NoResult /\ results' # NoResult /\ WindowPassed(host, now))
        => /\ ~host'.in_maintenance
           /\ host'.maintenance_until = None
           /\ results'.overall_status \in {"Online", "Offline"}
           /\ calls' # <<>>]_vars

\* C23 witness: a call made after the end of the window, the end time being
\* stored without a timezone, has raised; the flag is still set and neither
\* the resolver nor a prober was invoked.
C23_Witness ==
    /\ results # NoResult
    /\ results.overall_status = "TypeError"
    /\ calls = <<>>
    /\ WindowPassed(host, now)


\* =========================================================================
\* Properties of resolve_hostname
\* =========================================================================
\* C3: for every hostname, two lookups are at least the TTL apart (one lookup
\* serves every call made less than 300 s after it), and a call made once the
\* TTL has elapsed is itself a lookup (so the last call is always less than
\* 300 s after the last lookup).
C3_OneLookupPerTtl ==
    \A h \in Hostnames :
        LET L == lookupTimes[h]
        IN  /\ \A i \in 1..(Len(L) - 1) : L[i + 1] - L[i] >= DNS_CACHE_TTL
            /\ lastCallAt[h] # None =>
                  /\ L # <<>>
                  /\ L[Len(L)] <= lastCallAt[h][1]
                  /\ lastCallAt[h][1] - L[Len(L)] < DNS_CACHE_TTL
                  /\ h \in DOMAIN dns_cache
                  /\ dns_cache[h].resolved_at = L[Len(L)]

\* C3 witness: a hostname looked up a second time, by the call made exactly
\* when the TTL of the first lookup had elapsed.
C3_Witness ==
    /\ Len(lookupTimes["db1"]) = 2
    /\ lookupTimes["db1"][2] - lookupTimes["db1"][1] = DNS_CACHE_TTL
    /\ lastCallAt["db1"] = Some(lookupTimes["db1"][2])

\* =========================================================================
\* Properties of checar_um_host
\* =========================================================================
\* The rows a step appends to the history table.
NewRows == SubSeq(history', Len(history) + 1, Len(history'))
AppendOnly == Len(history') >= Len(history) /\ SubSeq(history', 1, Len(history)) = history
StatusRowsAdded(h) ==
    Cardinality({i \in 1..Len(NewRows) :
        NewRows[i].name = h /\ NewRows[i].status \in {"Online", "Offline"}})
IpRowsAdded(h) ==
    Cardinality({i \in 1..Len(NewRows) :
        NewRows[i].name = h /\ NewRows[i].status = "IP_CHANGED"})

\* C4 (as claimed): a check appends exactly one status row if its status
\* differs from the status of the previous StatusEntry, and none if it equals
\* it. (Only a check changes a StatusEntry that exists or appends rows.)
C4_OneRowPerTransition ==
    [][\A h \in DOMAIN status_cache :
          /\ AppendOnly
          /\ StatusRowsAdded(h) =
                IF status_cache[h].status # status_cache'[h].status
                THEN 1 ELSE 0]_vars

\* C4 (amended): a check appends exactly one status row if its status differs
\* from the status of the previous StatusEntry and the write of the row does
\* not fail, and none otherwise.
C4_OneRowPerRecordedTransition ==
    [][\A h \in DOMAIN status_cache :
          /\ AppendOnly
          /\ StatusRowsAdded(h) =
                IF /\ status_cache[h].status # status_cache'[h].status
                   /\ checkRet'.statusWrite # "failed"
                THEN 1 ELSE 0]_vars

\* C4 witness: the host went Online and then Offline, and each of the two
\* transitions left its row.
C4_Witness ==
    /\ Len(history) = 2
    /\ history[1].status = "Online" /\ history[2].status = "Offline"
    /\ history[1].name = history[2].name
    /\ status_cache[history[2].name].status = "Offline"

\* C5 (as claimed): a check appends exactly one IP_CHANGED row iff its final
\* IP differs from the IP of the previous StatusEntry, whatever the status does.
C5_IpRowIffIpDiffers ==
    [][\A h \in DOMAIN status_cache :
          IpRowsAdded(h) =
             IF status_cache[h].ip # status_cache'[h].ip THEN 1 ELSE 0]_vars

\* C5 (amended): a check appends exactly one IP_CHANGED row iff the previous
\* StatusEntry has an IP, the check ends with an IP, the two differ and the
\* write of the row does not fail; a check that leaves the status as it was
\* appends no status row, whether the IP changed or not.
C5_IpRowIffKnownIpChanges ==
    [][\A h \in DOMAIN status_cache :
          /\ IpRowsAdded(h) =
                IF /\ status_cache[h].ip # "None"
                   /\ status_cache'[h].ip # "None"
                   /\ status_cache[h].ip # status_cache'[h].ip
                   /\ checkRet'.ipWrite # "failed"
                THEN 1 ELSE 0
          /\ status_cache[h].status = status_cache'[h].status
                => StatusRowsAdded(h) = 0]_vars

\* C5 witness: the host stayed Online while its IP changed; the history holds
\* the row of the first transition and one IP_CHANGED row.
C5_Witness ==
    /\ Len(history) = 2
    /\ history[1].status = "Online"
    /\ history[2].status = "IP_CHANGED"
    /\ history[2].detail[1] # history[2].detail[2]
    /\ status_cache[history[2].name].status = "Online"
    /\ status_cache[history[2].name].ip = history[2].detail[2]
    /\ status_cache[history[2].name].ip_changed


\* =========================================================================
\* Properties of AlertService
\* =========================================================================
\* The rows of (rule_id, hostname) of a given status.
InstancesOf(rule_id, hostname, status) ==
    {k \in DOMAIN alert_instances :
        /\ alert_instances[k].rule_id = rule_id
        /\ alert_instances[k].hostname = hostname
        /\ alert_instances[k].status = status}
\* How many notifications of one kind a box holds for alert k on channel c.
Sent(box, k, c, is_resolution) ==
    Cardinality({i \in DOMAIN box :
        /\ box[i].alert_id = k
        /\ box[i].channel_id = c
        /\ box[i].is_resolution = is_resolution})
\* The channels a rule references, those of its ids that are channels.
ChannelsOf(rule) ==
    {rule.notification_channels[i] : i \in DOMAIN rule.notification_channels}
        \cap DOMAIN notification_channels

\* C6: whatever evaluate_alert_rules and acknowledge_alert calls were made,
\* one after the other, no (rule, hostname) pair has two Active instances.
C6_AtMostOneActive ==
    \A r \in DOMAIN alert_rules, h \in AlertHostnames :
        Cardinality(InstancesOf(r, h, "active")) <= 1

\* C6 witness: a pair whose first alert was acknowledged and that triggered
\* again, so that it has two instances, one of them Active.
C6_Witness ==
    \E r \in DOMAIN alert_rules, h \in AlertHostnames :
        /\ InstancesOf(r, h, "acknowledged") # {}
        /\ InstancesOf(r, h, "active") # {}

\* C7 (as claimed): with the single enabled rule `status equals Offline`, after
\* k >= 1 consecutive evaluate_alert_rules("db1", Offline) calls there is
\* exactly one Active instance for the pair, its persisted notification_count
\* is k, and exactly one triggered notification was dispatched in all.
C7_CountEqualsCalls ==
    (alert_rules = <<R_OFFLINE>> /\ streak >= 1) =>
        /\ Cardinality(InstancesOf(1, "db1", "active")) = 1
        /\ \A k \in InstancesOf(1, "db1", "active") :
              alert_instances[k].notification_count = streak
        /\ Cardinality({i \in DOMAIN outbox : ~outbox[i].is_resolution}) = 1

\* C7 witness: the second of two consecutive Offline results has been
\* evaluated, and the persisted notification_count is still 1.
C7_Witness ==
    /\ alert_rules = <<R_OFFLINE>>
    /\ streak = 2
    /\ InstancesOf(1, "db1", "active") = {1}
    /\ alert_instances[1].notification_count = 1
    /\ Len(outbox) = 1

\* C8: an evaluate_alert_rules call for h whose result makes the predicate of
\* a rule false turns the rule's Active instance for h into Resolved, sets its
\* resolved_at, and dispatches exactly one resolved notification on each
\* channel the rule references; no later step dispatches a resolved
\* notification for an instance that is Resolved already.
C8_ResolvedOnce ==
    [][/\ \A k \in DOMAIN alert_instances :
            \A st \in AlertStatuses, l \in AlertLatencies :
               (/\ alert_instances[k].status = "active"
                /\ ~should_trigger_alert(alert_rules[alert_instances[k].rule_id],
                                         alert_instances[k].hostname, st, l)
                /\ Evaluate(alert_instances[k].hostname, st, l))
               => /\ alert_instances'[k].status = "resolved"
                  /\ alert_instances'[k].resolved_at # None
                  /\ \A c \in ChannelsOf(alert_rules[alert_instances[k].rule_id]) :
                        /\ Sent(outbox, k, c, TRUE) = 0
                        /\ Sent(outbox', k, c, TRUE) = 1
       /\ \A k \in DOMAIN alert_instances :
            alert_instances[k].status = "resolved" =>
               /\ alert_instances'[k].status = "resolved"
               /\ \A c \in DOMAIN notification_channels :
                     Sent(outbox', k, c, TRUE) = Sent(outbox, k, c, TRUE)]_vars

\* C8 witness: an alert of the latency rule was resolved, and its resolved
\* notification went once to each of the rule's two channels, the disabled
\* one included.
C8_Witness ==
    \E k \in DOMAIN alert_instances :
        /\ alert_rules[alert_instances[k].rule_id] = R_SLOW
        /\ alert_instances[k].status = "resolved"
        /\ alert_instances[k].resolved_at # None
        /\ ~notification_channels[2].enabled
        /\ Sent(outbox, k, 1, TRUE) = 1
        /\ Sent(outbox, k, 2, TRUE) = 1

\* =========================================================================
\* Properties of worker_loop
\* =========================================================================
\* The scheduler is Idle while the thread sleeps, and Scanning otherwise.
Idle == pc = "sleep"
Scanning == pc # "sleep"

\* C9: in a pass over N entries no entry is checked or collected twice, no
\* more than the pool's size of checks run at a time, whatever the order in
\* which checks start and complete, and when the pass ends every entry has
\* been checked exactly once and exactly N results have been collected.
C9_EveryEntryOnce ==
    /\ Cardinality(running) <= MAX_WORKERS
    /\ \A i \in Entries : ran[i] <= 1 /\ collected[i] <= 1
    /\ \A i \in Entries : collected[i] = 1 => (i \in done /\ ran[i] = 1)
    /\ (Idle /\ maquinas > 0 /\ ~fault) =>
          /\ \A i \in 1..maquinas : ran[i] = 1 /\ collected[i] = 1
          /\ \A i \in Entries \ (1..maquinas) : ran[i] = 0 /\ collected[i] = 0
          /\ Cardinality({i \in Entries : collected[i] = 1}) = maquinas

\* C9 witness: a pass over more entries than the pool has threads has ended
\* with every entry collected.
C9_Witness ==
    /\ Idle
    /\ maquinas > MAX_WORKERS
    /\ total_scans >= 1
    /\ \A i \in 1..maquinas : collected[i] = 1

\* C10: the checks queued or running all belong to the pass in progress;
\* while the scheduler is Idle, or loading the next inventory, none is queued
\* or running; a pass starts only after a sleep; every pass ends in a sleep,
\* and every sleep ends in a next pass, for as many passes as are followed.
C10_PassesDoNotOverlap ==
    /\ [](\A w \in running \cup {queue[i] : i \in DOMAIN queue} : w[1] = passNo)
    /\ []((Idle \/ pc = "load") => (queue = <<>> /\ running = {}))
    /\ [][pc' = "load" => Idle]_vars
    /\ [][passNo' # passNo => (pc = "load" /\ passNo' = passNo + 1)]_vars
    /\ (Scanning ~> Idle)
    /\ ((Idle /\ passNo < MaxPasses) ~> Scanning)

\* C10 witness: the second pass is scanning with a check running, after a
\* first pass that was counted.
C10_Witness ==
    /\ passNo = 2
    /\ total_scans = 1
    /\ pc = "collect"
    /\ running # {}

\* =========================================================================
\* Properties of a scan pass whose checks overrun, raise or fault
\* =========================================================================
\* C11: when a pass has ended, every entry whose check ran past the timeout
\* of future.result has been counted as failed and its StatusEntry is still
\* the one it had before the pass.
C11_OverrunCountedFailed ==
    (Idle /\ ~fault) =>
        \A i \in 1..maquinas :
            outcome[i] = "overran" => (failed_counts[i] >= 1 /\ i \notin stored)

\* C11 witness: a counted pass has ended after waiting for a check that
\* overran; the check's result was collected, its StatusEntry replaced, and
\* nothing was added to failed_checks for it.
C11_Witness ==
    /\ Idle
    /\ total_scans >= 1
    /\ \E i \in 1..maquinas :
          /\ outcome[i] = "overran"
          /\ collected[i] = 1
          /\ i \in stored
          /\ failed_counts[i] = 0

\* C12: a check in which an exception was raised leaves its host's
\* StatusEntry as it was and is counted in failed_checks, and when the pass
\* has ended every other entry's check has returned, has been collected and
\* has replaced its own StatusEntry.
C12_RaisedCheckIsolated ==
    /\ \A i \in Entries :
          outcome[i] = "raised" => (i \notin stored /\ failed_counts[i] >= 1)
    /\ (Idle /\ maquinas > 0 /\ ~fault) =>
          \A i \in 1..maquinas :
              /\ outcome[i] # "pending"
              /\ outcome[i] # "raised" =>
                    (i \in stored /\ collected[i] = 1 /\ failed_counts[i] = 0)

\* C12 witness: a pass has ended in which one check raised and another
\* returned and replaced its StatusEntry.
C12_Witness ==
    /\ Idle
    /\ total_scans >= 1
    /\ \E i, j \in 1..maquinas :
          /\ outcome[i] = "raised"
          /\ i \notin stored
          /\ outcome[j] = "returned"
          /\ j \in stored

\* C13: the monitoring thread is always at a statement of the loop; an
\* iteration that faults goes to the sleep of the except clause and is not
\* counted as a scan; and after a fault the sleep ends and the loop starts
\* another pass, for as many passes as are followed.
C13_FaultNeverStopsLoop ==
    /\ [](pc \in {"load", "submit", "collect", "sleep"})
    /\ [][(fault' /\ pc # "sleep" /\ pc' # pc) =>
             (pc' = "sleep" /\ total_scans' = total_scans)]_vars
    /\ ((fault /\ Idle /\ passNo < MaxPasses) ~> (pc = "load"))

\* C13 witness: the first iteration faulted, and after its sleep the loop is
\* loading the inventory for another pass.
C13_Witness ==
    /\ fault
    /\ passNo = 1
    /\ pc = "load"

\* =========================================================================
\* Properties of checar_um_host: failed writes, startup entries, fallback
\* =========================================================================
\* C14: a check one of whose history writes failed has still replaced the
\* host's StatusEntry with its result (the new status, the new address, the
\* time of the check), has returned that entry and has been counted in
\* successful_checks; the history has gained the rows of the writes that
\* succeeded and no other.
C14_WriteFailureSwallowed ==
    [][(/\ checkRet' # checkRet
        /\ (checkRet'.ipWrite = "failed" \/ checkRet'.statusWrite = "failed")) =>
          LET h == checkRet'.name
              written == (IF checkRet'.ipWrite = "ok" THEN 1 ELSE 0)
                         + (IF checkRet'.statusWrite = "ok" THEN 1 ELSE 0)
          IN  /\ h \in DOMAIN status_cache /\ h \in DOMAIN status_cache'
              /\ status_cache'[h].last_checked = Some(clock)
              /\ checkRet'.statusWrite = "failed" =>
                    status_cache'[h].status # status_cache[h].status
              /\ checkRet'.ipWrite = "failed" =>
                    /\ status_cache'[h].ip # status_cache[h].ip
                    /\ status_cache'[h].ip_changed
              /\ checkRet'.returned = Some(status_cache'[h])
              /\ checkRet'.counted = "successful_checks"
              /\ Len(history') = Len(history) + written
              /\ SubSeq(history', 1, Len(history)) = history]_vars

\* C14 witness: the write of a status transition failed, the StatusEntry
\* holds the new status and nothing was recorded.
C14_Witness ==
    /\ checkRet.statusWrite = "failed"
    /\ checkRet.name \in DOMAIN status_cache
    /\ status_cache[checkRet.name].status = "Offline"
    /\ checkRet.returned = Some(status_cache[checkRet.name])
    /\ checkRet.counted = "successful_checks"
    /\ history = <<>>

\* C15: inicializar_cache leaves an entry of status Desconhecido for every
\* machine of the inventory it loaded and for no other host, and no step
\* ever removes an entry from status_cache, so every startup host keeps its
\* one entry (status_cache has one entry per hostname).
C15_StartupEntriesKept ==
    /\ [][(~started /\ started') =>
             /\ DOMAIN status_cache' =
                    {machines_cache'[i].name : i \in 1..Len(machines_cache')}
             /\ machines_cache' = csvFile
             /\ \A h \in DOMAIN status_cache' :
                    /\ status_cache'[h].name = h
                    /\ status_cache'[h].status = "Desconhecido"]_vars
    /\ [][\A h \in DOMAIN status_cache : h \in DOMAIN status_cache']_vars

\* C15 witness: the startup host has been checked and is still configured,
\* and its entry is in the store.
C15_Witness ==
    /\ started
    /\ csvFile = <<DB1>>
    /\ "db1" \in DOMAIN status_cache
    /\ status_cache["db1"].status = "Online"

\* C16: once the inventory has been reloaded and every machine of it has
\* been checked since, the snapshot of GET /status holds entries of
\* configured hosts only.
C16_SnapshotOnlyConfigured ==
    (/\ started
     /\ machines_cache = csvFile
     /\ \A m \in Submitted :
           /\ m.name \in DOMAIN status_cache
           /\ status_cache[m.name].last_checked # None
           /\ status_cache[m.name].last_checked[1] >= last_machines_load)
    => \A e \in StatusSnapshot(status_cache) : e.name \in {m.name : m \in Submitted}

\* C16 witness: db1 was deconfigured, the inventory reloaded and its one
\* machine web1 checked, and the snapshot still holds the entry of db1.
C16_Witness ==
    /\ started
    /\ csvFile = <<WEB1>>
    /\ machines_cache = <<WEB1>>
    /\ last_machines_load >= CACHE_TIMEOUT
    /\ "web1" \in DOMAIN status_cache
    /\ status_cache["web1"].last_checked = Some(clock)
    /\ \E e \in StatusSnapshot(status_cache) : e.name = "db1"

\* The machine of the inventory that the last check was called on.
LastChecked == {m \in Submitted : m.name = checkRet.name}

\* C17: after a check whose resolution failed on a host with a fallback
\* address, every probe was made on that address, the ping first; the entry
\* has method IP_FALLBACK, reason DNS_FAIL_FALLBACK and the fallback address;
\* and if one of the TCP ports connected, the entry is Online with no latency.
C17_FallbackTcpOnline ==
    \A m \in LastChecked :
        (resolveRet.ip = "None" /\ m.ip # "None") =>
            LET e == status_cache[m.name]
                probes == checkRet.probes
            IN  /\ probes # <<>>
                /\ probes[1][1] = "icmp"
                /\ \A k \in DOMAIN probes : probes[k][2] = m.ip
                /\ \A k \in DOMAIN probes : k > 1 =>
                      (probes[k][1] = "tcp" /\ probes[k][3] = PORTAS_TCP_TESTE[k - 1])
                /\ e.method = "IP_FALLBACK"
                /\ e.reason = "DNS_FAIL_FALLBACK"
                /\ e.ip = m.ip
                /\ (\E k \in DOMAIN probes : probes[k][1] = "tcp" /\ probes[k][4]) =>
                      (e.status = "Online" /\ e.latency_ms = None)
                /\ (\A k \in DOMAIN probes : ~probes[k][4]) => e.status = "Offline"

\* C17 witness: db1 did not resolve, the ping of its fallback address failed
\* and the second TCP port connected.
C17_Witness ==
    /\ checkRet.name = "db1"
    /\ resolveRet.ip = "None"
    /\ Len(checkRet.probes) = 3
    /\ checkRet.probes[3] = <<"tcp", FALLBACK_IP, PORTAS_TCP_TESTE[2], TRUE>>
    /\ status_cache["db1"].status = "Online"
    /\ status_cache["db1"].reason = "DNS_FAIL_FALLBACK"

\* What checar_um_host returns for a machine without a fallback address whose
\* name does not resolve, by a failed lookup or by a failure cached at time
\* 0, whatever the probers would answer and whatever entry the host has.
NoAddressChecks ==
    UNION {{checar_um_host(WEB1, ClockStep, env, cache, scache) :
                env \in {e \in CheckEnvs(WEB1, cache, ClockStep) : e.dns = "None"},
                scache \in {<<>>, InitEntries(<<WEB1>>, 1, <<>>)}} :
           cache \in {<<>>, resolve_hostname(<<>>, WEB1.name, 0, "None").dns_cache}}

\* C18: a check_host_comprehensive whose resolution failed on a host without
\* fallback address has called the resolver and no prober, has recorded the
\* DNS result alone, and has returned Offline with the message that no IP
\* address is available; and checar_um_host on a machine without fallback
\* address whose name does not resolve calls no prober and stores an entry
\* that is Offline with reason DNS_FAIL_NO_BACKUP, no address and no latency.
C18_NoAddressShortCircuit ==
    /\ (/\ Checked
        /\ ~results.checks["dns"].success
        /\ host.fallback_ip = "None") =>
            /\ calls = << <<"dns">> >>
            /\ DOMAIN results.checks = {"dns"}
            /\ results.overall_status = "Offline"
            /\ results.error_message = "No IP address available"
            /\ results.response_time = None
    /\ \A c \in NoAddressChecks :
            /\ c.resolved.ip = "None"
            /\ c.probes = <<>>
            /\ c.data.status = "Offline"
            /\ c.data.reason = "DNS_FAIL_NO_BACKUP"
            /\ c.data.ip = "None"
            /\ c.data.latency_ms = None
            /\ c.status_cache[WEB1.name] = c.data

\* C18 witness: a host with ICMP and TCP checks configured and no fallback
\* address did not resolve and the service returned without probing; and
\* checar_um_host has such a case too.
C18_Witness ==
    /\ Checked
    /\ host.fallback_ip = "None"
    /\ "icmp" \in ParseCheckTypes(host.check_types)
    /\ "tcp" \in ParseCheckTypes(host.check_types)
    /\ ~results.checks["dns"].success
    /\ results.error_message = "No IP address available"
    /\ \E c \in NoAddressChecks : c.data.reason = "DNS_FAIL_NO_BACKUP"

\* =========================================================================
\* Properties of rule targeting and of acknowledge_alert
\* =========================================================================
\* The targeting filters a rule can have, by kind: unset, empty, naming a
\* host or a tag or a group that exists, naming one that does not, the
\* wildcard.
TargetingRules ==
    {[R_OFFLINE EXCEPT !.target_hosts = th, !.target_tags = tt, !.target_groups = tg] :
        th \in {None, Some({}), Some({"db1"}), Some({"*"}), Some({"ghost"}),
                Some({"web1", "ghost"})},
        tt \in {None, Some({}), Some({"prod"}), Some({"qa"})},
        tg \in {None, Some({"core"}), Some({"edge"})}}

\* The rules of the store.
StoredRules == {alert_rules[i] : i \in DOMAIN alert_rules}

NoFilters(rule) ==
    rule.target_hosts = None /\ rule.target_tags = None /\ rule.target_groups = None
Listed(rule, hostname) ==
    rule.target_hosts # None /\ hostname \in rule.target_hosts[1]
Wildcard(rule) ==
    rule.target_hosts # None /\ "*" \in rule.target_hosts[1]
SharesTag(rule, hostname) ==
    /\ hostname \in DOMAIN HostRows
    /\ rule.target_tags # None
    /\ HostRows[hostname].tags # None
    /\ \E tag \in rule.target_tags[1] : tag \in HostRows[hostname].tags[1]
InGroup(rule, hostname) ==
    /\ hostname \in DOMAIN HostRows
    /\ rule.target_groups # None
    /\ \E g \in rule.target_groups[1] : HostRows[hostname].group_name = g

IsActive(k) == k \in DOMAIN alert_instances /\ alert_instances[k].status = "active"

\* C20: a step that makes an instance Acknowledged is a call of
\* acknowledge_alert on that instance, which was Active; the call returns
\* true, stamps acknowledged_at and acknowledged_by and changes nothing else.
\* A call of acknowledge_alert on an id that is missing or not Active returns
\* false and changes nothing. No other step, evaluate_alert_rules included,
\* makes an instance Acknowledged, and a new instance is never Acknowledged.
C20_OnlyAcknowledgeAcknowledges ==
    /\ [][\A k \in DOMAIN alert_instances' :
            (/\ alert_instances'[k].status = "acknowledged"
             /\ (k \in DOMAIN alert_instances =>
                    alert_instances[k].status # "acknowledged")) =>
                /\ IsActive(k)
                /\ Acknowledge(k)
                /\ ackRet'
                /\ alert_instances'[k].acknowledged_at = Some(now)
                /\ alert_instances'[k].acknowledged_by = "admin"
                /\ \A j \in DOMAIN alert_instances' :
                      j # k => alert_instances'[j] = alert_instances[j]]_vars
    /\ [][\A k \in 1..MaxAlerts :
            (Acknowledge(k) /\ ~IsActive(k)) =>
                /\ ~ackRet'
                /\ UNCHANGED <<alert_rules, alert_instances, notification_channels,
                               outbox>>]_vars

\* C20 witness: an instance was acknowledged by the last call, and another
\* one, resolved before, is as it was.
C20_Witness ==
    /\ ackRet
    /\ \E k, j \in DOMAIN alert_instances :
          /\ alert_instances[k].status = "acknowledged"
          /\ alert_instances[k].acknowledged_at # None
          /\ alert_instances[j].status = "resolved"
          /\ alert_instances[j].acknowledged_at = None

\* =========================================================================
\* Properties of the triggered notifications
\* =========================================================================
\* The ids a rule lists.
ListedChannels(rule) ==
    {rule.notification_channels[i] : i \in DOMAIN rule.notification_channels}

\* C21 (as claimed): for every instance that was created, one triggered
\* notification has been dispatched to every channel its rule lists.
C21_TriggeredToEveryListed ==
    \A k \in DOMAIN alert_instances :
        \A c \in ChannelsOf(alert_rules[alert_instances[k].rule_id]) :
            Sent(outbox, k, c, FALSE) = 1

\* C21 (amended): every instance is created Active with notification_count 1
\* by a step that dispatches one triggered notification for it to each
\* channel that its rule lists, that exists and that is enabled, and none to
\* any other channel; and no later step dispatches another.
C21_TriggeredToEnabledListed ==
    /\ [][\A k \in DOMAIN alert_instances' :
             k \notin DOMAIN alert_instances =>
                 /\ alert_instances'[k].status = "active"
                 /\ alert_instances'[k].notification_count = 1
                 /\ \A i \in DOMAIN outbox : outbox[i].alert_id # k]_vars
    /\ [](\A k \in DOMAIN alert_instances, c \in DOMAIN notification_channels :
             Sent(outbox, k, c, FALSE) =
                 IF /\ c \in ListedChannels(alert_rules[alert_instances[k].rule_id])
                    /\ notification_channels[c].enabled
                 THEN 1 ELSE 0)
    /\ [](\A i \in DOMAIN outbox :
             /\ outbox[i].alert_id \in DOMAIN alert_instances
             /\ outbox[i].channel_id \in DOMAIN notification_channels)

\* C21 witness: an instance of the latency rule, which lists the enabled
\* channel 1 and the disabled channel 2, has its triggered notification on
\* channel 1 and none on channel 2.
C21_Witness ==
    \E k \in DOMAIN alert_instances :
        /\ alert_rules[alert_instances[k].rule_id] = R_SLOW
        /\ notification_channels[1].enabled
        /\ ~notification_channels[2].enabled
        /\ Sent(outbox, k, 1, FALSE) = 1
        /\ Sent(outbox, k, 2, FALSE) = 0


\* The latencies of the successful probes recorded in a checks dictionary
\* (ICMP, every connected TCP port, HTTP, HTTPS).
SuccessLatencies(checks) ==
    {checks[k].latency_ms[1] :
        k \in {j \in DOMAIN checks \cap {"icmp", "http", "https"} : checks[j].success}}
    \cup (IF "tcp" \in DOMAIN checks
          THEN {checks["tcp"][i].latency_ms[1] :
                   i \in {j \in 1..Len(checks["tcp"]) : checks["tcp"][j].success}}
          ELSE {})

Minimum(S) == CHOOSE x \in S : \A y \in S : x <= y

\* C24: the response_time of an Online result is the minimum latency over all
\* its successful probes, a latency of 0 included; the response_time of an
\* Offline result is null.
C24_ResponseTimeIsMinimum ==
    Checked =>
        /\ results.overall_status = "Online" =>
              results.response_time = Some(Minimum(SuccessLatencies(results.checks)))
        /\ results.overall_status = "Offline" => results.response_time = None

\* C24 witness: an Online result whose response_time is 1 although one of its
\* successful probes measured 0.
C24_Witness ==
    /\ Checked
    /\ results.overall_status = "Online"
    /\ results.response_time = Some(1)
    /\ 0 \in SuccessLatencies(results.checks)


\* The probes that the configuration of h enables, in the order ICMP, TCP
\* ports as listed, HTTP, HTTPS, TLS certificate; the resolver comes first.
EnabledCalls(h) ==
    LET check_types == ParseCheckTypes(h.check_types)
        ports == ParseTcpPorts(h.tcp_ports)
    IN  << <<"dns">> >>
        \o (IF "icmp" \in check_types THEN << <<"icmp">> >> ELSE <<>>)
        \o (IF "tcp" \in check_types
            THEN [i \in 1..Len(ports) |-> <<"tcp", ports[i]>>] ELSE <<>>)
        \o (IF "http" \in check_types THEN << <<"http">> >> ELSE <<>>)
        \o (IF "https" \in check_types THEN << <<"https">>, <<"ssl">> >> ELSE <<>>)

\* C25: a check that has a target address invokes every probe of the enabled
\* methods exactly once, in the order ICMP, TCP ports in list order, HTTP,
\* HTTPS, TLS-certificate check, whatever the earlier probes answered; the
\* certificate check is invoked iff HTTPS is enabled, right after the HTTPS
\* probe.
C25_FixedOrderNoShortCircuit ==
    (Checked /\ results.primary_ip # "None") => calls = EnabledCalls(host)

\* C25 witness: ICMP succeeded and both TCP ports, HTTP, HTTPS and the
\* certificate check were still invoked, in that order.
C25_Witness ==
    /\ Checked
    /\ calls = << <<"dns">>, <<"icmp">>, <<"tcp", 3389>>, <<"tcp", 445>>,
                  <<"http">>, <<"https">>, <<"ssl">> >>
    /\ results.checks["icmp"].success


\* The TCP probes of the last check, in the order they were made.
TcpAttempts == IF Checked /\ "tcp" \in DOMAIN results.checks
               THEN results.checks["tcp"] ELSE <<>>

\* C26: the TCP probing stops at the first port that connects: no port is
\* attempted after a port that connected.
C26_StopsAtFirstConnectedPort ==
    \A i \in 1..Len(TcpAttempts) :
        TcpAttempts[i].success => i = Len(TcpAttempts)

\* C26 witness: port 3389 connected and port 445 was probed all the same.
C26_Witness ==
    /\ Len(TcpAttempts) = 2
    /\ TcpAttempts[1].port = 3389 /\ TcpAttempts[1].success
    /\ TcpAttempts[2].port = 445
    /\ calls = << <<"dns">>, <<"tcp", 3389>>, <<"tcp", 445>> >>


\* C22: the force-check path appends a HistoryRecord only on a status
\* transition: no row follows a row with the same status.
C22_ForceCheckRowOnTransitionOnly ==
    \A i \in 2..Len(host_history) :
        host_history[i].status # host_history[i - 1].status

\* C22 witness: two force-checks in a row found the host Online and each
\* appended its row.
C22_Witness ==
    /\ Len(host_history) = 2
    /\ host_history[1].status = "Online"
    /\ host_history[2].status = "Online"


\* C27: after a check by checar_um_host that probed, the ping came first; TCP
\* ports were probed only after a failed ping, in the order 3389, 445, 80 and
\* up to the first that connected; the status is Online iff the ping
\* succeeded or a port connected; and a latency is recorded only when the
\* ping succeeded, so only for an Online host.
C27_TcpFallbackOnlyAfterIcmp ==
    \A m \in LastChecked :
        LET e == status_cache[m.name]
            probes == checkRet.probes
            n == Len(probes)
        IN  /\ n > 0 => probes[1][1] = "icmp"
            /\ n > 1 => ~probes[1][4]
            /\ \A k \in 2..n :
                  /\ probes[k][1] = "tcp"
                  /\ probes[k][3] = PORTAS_TCP_TESTE[k - 1]
                  /\ probes[k][4] => k = n
            /\ (n > 0 /\ \A k \in 1..n : ~probes[k][4]) => n = 1 + Len(PORTAS_TCP_TESTE)
            /\ e.status = "Online" <=> \E k \in 1..n : probes[k][4]
            /\ e.status \in {"Online", "Offline"}
            /\ e.latency_ms # None => (n = 1 /\ probes[1][4])
            /\ e.latency_ms # None => e.status = "Online"

\* C27 witness: the ping of db1 failed, port 3389 did not connect, port 445
\* did, port 80 was not tried; db1 is Online without a latency.
C27_Witness ==
    /\ checkRet.name = "db1"
    /\ Len(checkRet.probes) = 3
    /\ ~checkRet.probes[1][4]
    /\ checkRet.probes[2] = <<"tcp", checkRet.probes[2][2], 3389, FALSE>>
    /\ checkRet.probes[3] = <<"tcp", checkRet.probes[3][2], 445, TRUE>>
    /\ resolveRet.ip # "None"
    /\ status_cache["db1"].status = "Online"
    /\ status_cache["db1"].latency_ms = None


\* C28: a resolve_hostname call for a hostname whose cached entry is a failure
\* younger than the TTL returns (none, the cached error) without a lookup and
\* leaves the cache as it is; a call made once the TTL has elapsed performs a
\* lookup, replaces the entry and returns what the lookup gave.
C28_FailureCachedForTtl ==
    [][\A h \in Hostnames :
          (Resolve(h) /\ h \in DOMAIN dns_cache /\ ~dns_cache[h].ok) =>
              IF clock - dns_cache[h].resolved_at < DNS_CACHE_TTL
              THEN /\ resolveRet' = [ip |-> "None", error |-> dns_cache[h].error]
                   /\ lookupTimes' = lookupTimes
                   /\ dns_cache' = dns_cache
              ELSE /\ lookupTimes'[h] = Append(lookupTimes[h], clock)
                   /\ dns_cache'[h].resolved_at = clock
                   /\ dns_cache'[h].ok <=> dns_cache'[h].ip # "None"
                   /\ resolveRet' = [ip |-> dns_cache'[h].ip,
                                     error |-> dns_cache'[h].error]]_vars

\* C28 witness: the lookup of db1 failed at time 0; a call made within the
\* TTL returned the cached error and the lookup of time 0 is still the only
\* one.
C28_Witness ==
    /\ "db1" \in DOMAIN dns_cache
    /\ ~dns_cache["db1"].ok
    /\ dns_cache["db1"].resolved_at = 0
    /\ clock = ClockStep
    /\ lastCallAt["db1"] = Some(clock)
    /\ lookupTimes["db1"] = <<0>>
    /\ resolveRet = [ip |-> "None", error |-> dns_cache["db1"].error]


\* The pair that a call returning from the cache gives for entry e.
PairOf(e) == IF e.ok THEN [ip |-> e.ip, error |-> "None"]
             ELSE [ip |-> "None", error |-> e.error]

\* C29: under every interleaving of resolve_hostname calls, each dns_cache
\* entry is the entry written by one resolution of that hostname, with ok true
\* iff ip is non-null iff error is null; and the pair a call returns is the
\* pair of one single written entry of its hostname, never the ok of one
\* write with the ip or error of another.
C29_EntriesAreSingleWrites ==
    /\ \A h \in Hostnames :
          dns_refs[h] # 0 =>
              LET e == dns_objs[dns_refs[h]]
              IN  /\ e.ok <=> e.ip # "None"
                  /\ e.ok <=> e.error = "None"
                  /\ <<h, e>> \in dns_written
    /\ \A t \in Threads :
          rpc[t] = "done" =>
              \E w \in dns_written : w[1] = rloc[t].hostname /\ rret[t] = PairOf(w[2])

\* C29 witness: a thread has returned the cached failure of db1 after
\* reading its fields while, between its reads, another thread replaced the
\* entry by a success.
C29_Witness ==
    \E t \in Threads :
        /\ rpc[t] = "done"
        /\ rloc[t].hostname = "db1"
        /\ rloc[t].cache_entry # 0
        /\ rret[t] = [ip |-> "None", error |-> "DNS resolution failed"]
        /\ dns_refs["db1"] # rloc[t].cache_entry
        /\ dns_objs[dns_refs["db1"]].ok


\* The response item of a whole stored entry.
ResponseOf(e) ==
    ResponseItem([i \in 1..Len(StatusFields) |-> e[StatusFields[i]]])

\* C30: every item of a /status response built while checks run is the image
\* of one whole entry that was stored for that host, the previous one or a
\* new one, never fields of two different entries.
C30_ReaderSeesWholeEntries ==
    \A i \in DOMAIN resp :
        \E e \in st_stored :
            /\ resp[i] = ResponseOf(e)
            /\ e.name = st_objs[items[i]].name

\* C30 witness: the response holds an item for db1 with the entry of an
\* earlier check although, while the handler was reading, a later check with
\* another address replaced the entry and flagged the change.
C30_Witness ==
    \E i \in DOMAIN resp :
        /\ resp[i].name = "db1"
        /\ resp[i].status \in {"Online", "Offline"}
        /\ st_refs["db1"] # items[i]
        /\ st_objs[st_refs["db1"]].ip_changed
        /\ ~resp[i].ip_changed


\* C31: when two evaluate_alert_rules calls for the same host and a matching
\* rule run concurrently, at most one Active instance exists for
\* (rule, hostname) and at most one triggered notification has been sent for
\* the Active instances of the pair.
C31_OneActivePerPair ==
    \A r \in DOMAIN alert_rules :
        LET active == ActiveIds(alert_instances, r, "db1")
        IN  /\ Cardinality(active) <= 1
            /\ Cardinality({n \in DOMAIN outbox :
                    ~outbox[n].is_resolution /\ outbox[n].alert_id \in active}) <= 1

\* Both callers found no Active row, both added one and both notified.
C31_TwoActiveTwoNotified ==
    /\ Cardinality(ActiveIds(alert_instances, 1, "db1")) = 2
    /\ Cardinality({n \in DOMAIN outbox : ~outbox[n].is_resolution
                       /\ alert_instances[outbox[n].alert_id].status = "active"}) = 2
    /\ \A c \in Callers : epc[c] = "idle"


\* =========================================================================
\* Properties of the instances' life cycle and of the channels' enabled flag
\* =========================================================================
\* C38: no notification, triggered or resolved, has been dispatched to a
\* channel whose enabled flag is false.
C38_OnlyEnabledChannelsNotified ==
    \A n \in DOMAIN outbox : notification_channels[outbox[n].channel_id].enabled

\* A resolved notification went to the disabled channel 2, whose handler was
\* called, while the triggered notification of the same instance did not.
C38_ResolvedSentToDisabled ==
    \E n \in DOMAIN outbox :
        /\ outbox[n].is_resolution
        /\ outbox[n].channel_id = 2
        /\ ~notification_channels[2].enabled
        /\ notification_channels[2].success_count > 0
        /\ Sent(outbox, outbox[n].alert_id, 2, FALSE) = 0

\* The instances of (rule r, hostname h) that are not resolved.
Unresolved(r, h) == InstancesOf(r, h, "active") \cup InstancesOf(r, h, "acknowledged")

\* C33: for every (rule, hostname) pair at most one instance is Active or
\* Acknowledged, and the unresolved instances of the pair have received at
\* most one triggered notification per channel.
C33_AtMostOneUnresolved ==
    \A r \in DOMAIN alert_rules, h \in AlertHostnames :
        /\ Cardinality(Unresolved(r, h)) <= 1
        /\ \A c \in DOMAIN notification_channels :
              Cardinality({n \in DOMAIN outbox :
                  /\ outbox[n].alert_id \in Unresolved(r, h)
                  /\ outbox[n].channel_id = c
                  /\ ~outbox[n].is_resolution}) <= 1

\* An acknowledged instance and a later Active one of the same pair, each
\* with its own triggered notification on channel 1.
C33_SecondInstanceAfterAck ==
    \E k, j \in DOMAIN alert_instances :
        /\ k < j
        /\ alert_instances[k].status = "acknowledged"
        /\ alert_instances[j].status = "active"
        /\ alert_instances[j].rule_id = alert_instances[k].rule_id
        /\ alert_instances[j].hostname = alert_instances[k].hostname
        /\ Sent(outbox, k, 1, FALSE) = 1
        /\ Sent(outbox, j, 1, FALSE) = 1

\* C35: no step changes an instance that is not Active; an instance that is
\* Acknowledged or Resolved keeps its status and every other field whatever
\* evaluate_alert_rules is called with (acknowledge_alert leaves it too).
C35_OnlyActiveModified ==
    [][\A k \in DOMAIN alert_instances :
          alert_instances[k].status # "active" =>
              /\ k \in DOMAIN alert_instances'
              /\ alert_instances'[k] = alert_instances[k]]_vars

\* C35 witness: an instance was acknowledged, and evaluations of its pair
\* that followed (one that triggered, so a later instance exists, and one
\* that resolved that later instance) left it Acknowledged, unresolved and
\* with the count it was created with.
C35_Witness ==
    \E k, j \in DOMAIN alert_instances :
        /\ k < j
        /\ alert_instances[k].status = "acknowledged"
        /\ alert_instances[k].resolved_at = None
        /\ alert_instances[k].notification_count = 1
        /\ alert_instances[j].status = "resolved"
        /\ alert_instances[j].rule_id = alert_instances[k].rule_id
        /\ alert_instances[j].hostname = alert_instances[k].hostname

\* The enabled rule r holds for the call's arguments, a Resolved instance of
\* (r, h) exists and no Active one.
RetriggerAfterResolution(r, h, st, l) ==
    /\ alert_rules[r].enabled
    /\ should_trigger_alert(alert_rules[r], h, st, l)
    /\ InstancesOf(r, h, "resolved") # {}
    /\ InstancesOf(r, h, "active") = {}

\* C36: a call of evaluate_alert_rules for which a rule holds again, for a
\* host with a Resolved and no Active instance of the rule, adds one instance
\* of the pair, Active with notification_count 1, dispatches one triggered
\* notification for it to each enabled channel the rule lists, and leaves
\* every Resolved instance as it was.
C36_ResolvedIsTerminal ==
    [][\A h \in AlertHostnames, st \in AlertStatuses, l \in AlertLatencies,
         r \in DOMAIN alert_rules :
          (RetriggerAfterResolution(r, h, st, l) /\ Evaluate(h, st, l)) =>
              /\ \E j \in DOMAIN alert_instances' \ DOMAIN alert_instances :
                    /\ alert_instances'[j].rule_id = r
                    /\ alert_instances'[j].hostname = h
                    /\ alert_instances'[j].status = "active"
                    /\ alert_instances'[j].notification_count = 1
                    /\ \A c \in DOMAIN notification_channels :
                          Sent(outbox', j, c, FALSE) =
                              IF /\ c \in ListedChannels(alert_rules[r])
                                 /\ notification_channels[c].enabled
                              THEN 1 ELSE 0
                    /\ \A i \in DOMAIN alert_instances' \ DOMAIN alert_instances :
                          (alert_instances'[i].rule_id = r
                              /\ alert_instances'[i].hostname = h) => i = j
              /\ \A k \in DOMAIN alert_instances :
                    alert_instances[k].status = "resolved" =>
                        alert_instances'[k] = alert_instances[k]]_vars

\* C36 witness: a Resolved instance, with its resolved notification, and a
\* later Active one of the same pair with count 1 and its own triggered
\* notification on channel 1.
C36_Witness ==
    \E k, j \in DOMAIN alert_instances :
        /\ k < j
        /\ alert_instances[k].status = "resolved"
        /\ alert_instances[k].resolved_at # None
        /\ Sent(outbox, k, 1, TRUE) = 1
        /\ alert_instances[j].status = "active"
        /\ alert_instances[j].notification_count = 1
        /\ alert_instances[j].rule_id = alert_instances[k].rule_id
        /\ alert_instances[j].hostname = alert_instances[k].hostname
        /\ Sent(outbox, j, 1, FALSE) = 1


\* C37: no step of evaluate_alert_rules changes, resolves or adds an instance
\* of a rule whose enabled flag is false, and none dispatches a notification
\* for such an instance; an instance of a disabled rule changes only by
\* being acknowledged.
C37_DisabledRulesUntouched ==
    [][/\ \A k \in DOMAIN alert_instances :
             ~alert_rules[alert_instances[k].rule_id].enabled =>
                 \/ alert_instances'[k] = alert_instances[k]
                 \/ Acknowledge(k) /\ alert_instances'[k].status = "acknowledged"
       /\ \A j \in DOMAIN alert_instances' \ DOMAIN alert_instances :
             alert_rules[alert_instances'[j].rule_id].enabled
       /\ \A n \in DOMAIN outbox' \ DOMAIN outbox :
             alert_rules[alert_instances'[outbox'[n].alert_id].rule_id].enabled]_vars

\* C37 witness: the last call of evaluate_alert_rules had arguments for
\* which the condition of a disabled rule did not hold, and the Active
\* instance of that rule, triggered while it was enabled, is still Active
\* and no resolved notification exists for it.
C37_Witness ==
    \E k \in spared :
        /\ alert_instances[k].status = "active"
        /\ alert_instances[k].resolved_at = None
        /\ ~alert_rules[alert_instances[k].rule_id].enabled
        /\ \A n \in DOMAIN outbox : outbox[n].alert_id = k => ~outbox[n].is_resolution
        /\ \E n \in DOMAIN outbox : outbox[n].alert_id = k


\* =========================================================================
\* Properties of ping_icmp_target
\* =========================================================================
\* The runs of the call so far that ended with exit code 0.
PingSuccesses == {i \in DOMAIN ping_log : ping_log[i].outcome = "zero"}

\* C32: ping_icmp_target runs the command at most `retries` times and never
\* raises; when it returns success the last run is the only one with exit
\* code 0 and the latency is the time that run took, to the tenth of a
\* millisecond; when it returns (false, none) it has made `retries` runs and
\* each failed or raised.
C32_AtMostRetriesAttempts ==
    /\ Len(ping_log) <= ping_retries
    /\ ping_pc # "raised"
    /\ (ping_pc = "returned" /\ ping_ret.ok) =>
          /\ PingSuccesses = {Len(ping_log)}
          /\ ping_ret.latency # None
          /\ 100 * ping_ret.latency[1] - 25 * ping_log[Len(ping_log)].elapsed \in -50..50
    /\ (ping_pc = "returned" /\ ~ping_ret.ok) =>
          /\ ping_ret.latency = None
          /\ Len(ping_log) = ping_retries
          /\ PingSuccesses = {}
    /\ ping_pc = "loop" => PingSuccesses = {}

\* C32 witness: a call with retries = 2 whose first run timed out and whose
\* second succeeded returned the second run's time, not the call's.
C32_Witness ==
    /\ ping_pc = "returned"
    /\ ping_retries = 2
    /\ Len(ping_log) = 2
    /\ ping_log[1].outcome = "timeout"
    /\ ping_log[1].elapsed = 3
    /\ ping_ret = [ok |-> TRUE, latency |-> Some(1)]
    /\ ping_clock = 6


\* =========================================================================
\* Properties of the counters of a scan pass
\* =========================================================================
\* C34: when a pass over a non-empty inventory has completed,
\* successful_checks + failed_checks is the number of entries submitted in
\* it, and the passes completed are those counted in total_scans.
C34_CountersAddUp ==
    (pc = "sleep" /\ ~fault /\ maquinas > 0) =>
        /\ successful_checks + failed_checks = maquinas
        /\ total_scans <= passNo

\* A pass of one entry whose check raised has ended with failed_checks = 2:
\* the except clause of checar_um_host counted it and returned None, and the
\* loop counted the None.
C34_RaisedCountedTwice ==
    /\ pc = "sleep"
    /\ ~fault
    /\ maquinas = 1
    /\ outcome[1] = "raised"
    /\ successful_checks = 0
    /\ failed_checks = 2
    /\ total_scans = passNo

\* A pass of two entries whose checks both returned has ended with
\* successful_checks = 1: one increment was lost.
LostIncrement ==
    /\ pc = "sleep"
    /\ ~fault
    /\ maquinas = 2
    /\ \A i \in 1..2 : outcome[i] = "returned"
    /\ successful_checks = 1
    /\ failed_checks = 0


\* =========================================================================
\* Properties of the history of a host's status
\* =========================================================================
\* The rows of the history table that record a status of hostname.
StatusRows(hostname) ==
    {i \in DOMAIN history :
        history[i].name = hostname /\ history[i].status # "IP_CHANGED"}

\* C39: with a history table whose commits succeed, every host that has been
\* checked has a status row in the history, and the status of the most
\* recent one is the status of the host's StatusEntry.
C39_LastStatusRowIsEntryStatus ==
    \A h \in DOMAIN status_cache :
        status_cache[h].last_checked # None =>
            /\ StatusRows(h) # {}
            /\ \E i \in StatusRows(h) :
                  /\ \A j \in StatusRows(h) : j <= i
                  /\ history[i].status = status_cache[h].status

\* web1, that joined the inventory at a reload, was checked and found
\* Online; its StatusEntry says so, the commits of the check succeeded, and
\* the history has no row of web1.
C39_JoinedHostWithoutRow ==
    /\ csvFile = <<WEB1>>
    /\ machines_cache = <<WEB1>>
    /\ last_machines_load >= CACHE_TIMEOUT
    /\ checkRet.name = "web1"
    /\ checkRet.statusWrite = "none"
    /\ checkRet.returned # None
    /\ status_cache["web1"].status = "Online"
    /\ \A i \in DOMAIN history : history[i].name # "web1"


\* =========================================================================
\* Properties of GET /alerts
\* =========================================================================
\* The host has been Offline at every check for more than 300 seconds.
LongOffline(h) ==
    /\ offline_since[h] # None
    /\ clock - offline_since[h][1] > 300

\* C40: while worker_loop keeps checking the inventory and GET /alerts is
\* polled, a host that has been Offline for more than 300 seconds is
\* eventually listed in the response, unless it stops being Offline.
C40_LongOfflineListed ==
    \A h \in Hostnames : LongOffline(h) ~> (h \in alertsResp \/ ~LongOffline(h))

\* web1 has been Offline at every check for 450 seconds or more, the last
\* check is of this instant, and a response of GET /alerts computed now
\* lists nothing.
C40_NeverListed ==
    /\ LongOffline("web1")
    /\ offline_since["web1"] = Some(0)
    /\ status_cache["web1"].status = "Offline"
    /\ status_cache["web1"].last_checked = Some(clock)
    /\ alerts(status_cache, clock) = {}
    /\ alertsResp = {}

============================================================================
